---- MODULE Spec2Model ----
(***************************************************************************)
(* DocuRAG: the relational tables (users, documents, chunks, queries), the *)
(* object store, the per-user vector collections and the request handlers  *)
(* that act on them: POST /api/upload, POST /api/process, GET and DELETE   *)
(* /api/documents, POST /api/query and the timer callback that drips the   *)
(* answer into the response stream.                                        *)
(*                                                                         *)
(* Text is a sequence of one-character strings, a JavaScript value that a  *)
(* handler inspects with typeof or truthiness is a record [t, v], a         *)
(* similarity score is an integer number of hundredths.                    *)
(***************************************************************************)
EXTENDS Integers, Sequences, FiniteSets, TLC

VARIABLES
    env,        \* process.env as read by the handlers
    now,        \* Date.now() / the database's now()
    users,      \* rows of table users
    documents,  \* rows of table documents
    chunks,     \* rows of table chunks
    queries,    \* rows of table queries, in insertion order
    storage,    \* objects of the bucket, by locator
    points,     \* points of the vector store, each in its collection
    inbox,      \* notifications the processing worker has received
    ratelimit,  \* the cache of the rate limiters: for each limiter and user,
                \* the times of the requests the limiter has let pass
    nextDocId,  \* the next documents.id the database generates
    docOwner,   \* history: every documents.id ever inserted, with its userId
    stream,     \* the ReadableStream of the last streamed query response
    resp,       \* the last request and its response
    calls,      \* the calls the last request made, in order; "throw" follows
                \* a call that threw, "empty" a search that found nothing
    client,     \* the state of the QueryInterface component reading a response
    uploader,   \* the state of the DocumentUpload component and its requests
    inflight    \* the requests that are handled await by await, each with the
                \* point it has reached, what it has read so far and its answer

vars == <<env, now, users, documents, chunks, queries, storage, points, inbox,
          ratelimit, nextDocId, docOwner, stream, resp, calls, client, uploader,
          inflight>>

----------------------------------------------------------------------------
(* Bounds of the model *)

MaxDocs == 2
MaxQueries == 1
MaxClock == 2
MaxChunks == 1
MaxInflight == 2

\* Files queued in the upload component, and calls of uploadAllFiles and Retry
MaxFiles == 3

MaxRuns == 3

(* Program constants *)

MAX_FILE_SIZE == 50 * 1024 * 1024
TOP_K == 10
UPLOAD_LIMIT == 10
QUERY_LIMIT == 100

\* The window of both limiters, '1 h', in ticks of the clock (half hours)
WINDOW == 2
SIMILARITY_THRESHOLD == 70

----------------------------------------------------------------------------
(* Values *)

None == "none"

\* An absent number (undefined) in a response body.
Undefined == -1

ClerkIds == {"clerk_1", "clerk_2"}

\* users.id is a random uuid: one fixed uuid per identity, since clerk_id is
\* unique and user rows are never deleted.
UserUuid(clerkId) ==
    IF clerkId = "clerk_1" THEN <<"a", "-", "1">> ELSE <<"a", "-", "2">>

DocIds == 1..MaxDocs

ALLOWED_FILE_TYPES ==
    <<"application/pdf", "text/plain", "text/markdown", "application/msword",
      "application/vnd.openxmlformats-officedocument.wordprocessingml.document">>

Range(s) == {s[i] : i \in DOMAIN s}

\* Array.prototype.includes
Includes(arr, x) == \E i \in DOMAIN arr : arr[i] = x

Last(s) == s[Len(s)]

\* The position of the first occurrence of x in the sequence s (0 when absent).
IndexOf(s, x) ==
    IF \E i \in DOMAIN s : s[i] = x
    THEN CHOOSE i \in DOMAIN s : s[i] = x /\ \A j \in 1..(i - 1) : s[j] # x
    ELSE 0

----------------------------------------------------------------------------
(* Configuration *)

Envs ==
    [WORKER_SECRET : {None, "s3cret"},
     NODE_ENV : {"production", "development"},
     WORKER_URL : BOOLEAN,
     UPSTASH : BOOLEAN]

----------------------------------------------------------------------------
(* lib/rate-limit.ts *)

\* What limiter.limit(userId) of the external sliding-window limiter can do.
LimiterOutcomes == {"allow", "deny", "throw"}

\* Variant that picks the query limiter for both operation classes
LimiterOfQuery(type) == IF env.UPSTASH THEN "query" ELSE None

\* redis ? new Ratelimit(...) : null
LimiterOf(type) == IF env.UPSTASH THEN type ELSE None

\* Variant that turns the request away when the limiter cannot answer
checkRateLimitClosed(type, lim) ==
    IF LimiterOf(type) = None \/ lim \in {"throw", "deny"}
    THEN [success |-> FALSE, remaining |-> 0, reset |-> now + 1]
    ELSE [success |-> TRUE, remaining |-> 1, reset |-> now + 1]

checkRateLimit(type, lim) ==
    IF LimiterOf(type) = None THEN [success |-> TRUE, remaining |-> Undefined, reset |-> Undefined]
    ELSE IF lim = "throw" THEN [success |-> TRUE, remaining |-> Undefined, reset |-> Undefined]
    ELSE IF lim = "deny" THEN [success |-> FALSE, remaining |-> 0, reset |-> now + 1]
    ELSE [success |-> TRUE, remaining |-> 1, reset |-> now + 1]

\* Ratelimit.slidingWindow(tokens, '1 h') of the limiter
TokensOf(limiter) == IF limiter = "upload" THEN UPLOAD_LIMIT ELSE QUERY_LIMIT

\* The counted requests that are less than one window old
InWindow(times) == SelectSeq(times, LAMBDA t : now - t < WINDOW)

\* limiter.limit(userId) of a reachable sliding-window limiter: the request
\* passes while fewer than `tokens` requests of the user passed in the window
SlidingWindow(type, userId) ==
    IF LimiterOf(type) = None THEN "allow"
    ELSE IF Len(InWindow(ratelimit[LimiterOf(type)][userId])) >= TokensOf(LimiterOf(type))
    THEN "deny"
    ELSE "allow"

\* The cache after limiter.limit(userId): a request that passes is counted,
\* entries older than the window have expired
Counted(type, userId) ==
    IF LimiterOf(type) = None THEN ratelimit
    ELSE [ratelimit EXCEPT ![LimiterOf(type)][userId] =
            IF SlidingWindow(type, userId) = "allow" THEN Append(InWindow(@), now)
            ELSE InWindow(@)]

\* The log of a call of checkRateLimit: the limiter is asked when there is
\* one, and its exception is caught.
LimiterCalls(type, lim) ==
    IF LimiterOf(type) = None THEN <<>>
    ELSE IF lim = "throw" THEN <<"limiter.limit", "throw">>
    ELSE <<"limiter.limit">>

----------------------------------------------------------------------------
(* lib/storage.ts *)

\* file.name.replace(/[^a-zA-Z0-9.-]/g, '_')
SafeChars == {"a", "b", "p", "d", "f", ".", "-", "1", "2"}

sanitizedFileName(name) ==
    [i \in DOMAIN name |-> IF name[i] \in SafeChars THEN name[i] ELSE "_"]

\* gs://<bucket>/<userId>/<timestamp>-<sanitized name>
StorageUrl(file, userId) ==
    [userId |-> userId, timestamp |-> now, name |-> sanitizedFileName(file.name)]

----------------------------------------------------------------------------
(* lib/vector-store.ts *)

\* Variant with one collection for everybody
SharedCollectionName(userId) == <<"u", "s", "e", "r", "s">>

getCollectionName(userId) ==
    <<"u", "s", "e", "r", "_">> \o
        [i \in DOMAIN userId |-> IF userId[i] = "-" THEN "_" ELSE userId[i]]

----------------------------------------------------------------------------
(* Requests and responses *)

Response(op, caller, req, status, body) ==
    [op |-> op, caller |-> caller, req |-> req, status |-> status, body |-> body]

ErrorBody(msg) == [error |-> msg]

\* db.select().from(users).where(eq(users.clerkId, clerkId)).limit(1)
UserOf(clerkId) == {u \in users : u.clerkId = clerkId}

UserRow(clerkId) == CHOOSE u \in UserOf(clerkId) : TRUE

DocById(id) == {d \in documents : d.id = id}

----------------------------------------------------------------------------
(* app/api/upload: POST *)

FileName == <<"a", " ", "b", ".", "p", "d", "f">>

FileSizes == {2 * 1024 * 1024, MAX_FILE_SIZE, MAX_FILE_SIZE + 1, 60 * 1024 * 1024}

FileTypes == Range(ALLOWED_FILE_TYPES) \cup {"image/jpeg", "application/x-executable", ""}

Files == [name : {FileName}, size : FileSizes, type : FileTypes]

\* formData.get('file') is null
NoFile == [name |-> <<>>, size |-> -1, type |-> ""]

UploadSteps ==
    <<"auth", "rateLimit", "formData", "file", "size", "type", "selectUser",
      "email", "insertUser", "storage", "insertDoc", "notify">>

UploadFailures == {"none", "formData", "selectUser", "currentUser", "insertUser",
                   "storage", "insertDoc"}

\* What the fetch of ${WORKER_URL}/process can do.
WorkerOutcomes == {"ok", "notOk", "throws"}

\* Variant that rejects the limit itself
FileAtLeastLimit(file) == file.size >= MAX_FILE_SIZE

FileTooLarge(file) == file.size > MAX_FILE_SIZE

\* Variant that accepts every type that is named
FileTypeNamed(file) == file.type # ""

FileTypeAllowed(file) == Includes(ALLOWED_FILE_TYPES, file.type)

\* The step at which the handler returns, and the response it returns there.
\* "done" is the success response at the end.
UploadExit(c, file, lim, hasEmail, fail) ==
    LET rl == checkRateLimit("upload", lim) IN
    IF c = None THEN [at |-> "auth", status |-> 401, body |-> ErrorBody("Unauthorized")]
    ELSE IF ~rl.success
    THEN [at |-> "rateLimit", status |-> 429,
          body |-> [error |-> "Rate limit exceeded. Please try again later.",
                    remaining |-> rl.remaining, reset |-> rl.reset]]
    ELSE IF fail = "formData"
    THEN [at |-> "formData", status |-> 500,
          body |-> ErrorBody("An error occurred while uploading the document.")]
    ELSE IF file = NoFile
    THEN [at |-> "file", status |-> 400, body |-> ErrorBody("No file provided")]
    ELSE IF FileTooLarge(file)
    THEN [at |-> "size", status |-> 400,
          body |-> ErrorBody("File too large. Maximum size is 50MB.")]
    ELSE IF ~FileTypeAllowed(file)
    THEN [at |-> "type", status |-> 400,
          body |-> ErrorBody("Invalid file type. Allowed types: PDF, TXT, MD, DOC, DOCX.")]
    ELSE IF fail = "selectUser"
    THEN [at |-> "selectUser", status |-> 500,
          body |-> ErrorBody("An error occurred while uploading the document.")]
    ELSE IF UserOf(c) = {} /\ fail = "currentUser"
    THEN [at |-> "email", status |-> 500,
          body |-> ErrorBody("An error occurred while uploading the document.")]
    ELSE IF UserOf(c) = {} /\ ~hasEmail
    THEN [at |-> "email", status |-> 400,
          body |-> ErrorBody("Unable to retrieve user email from authentication provider.")]
    ELSE IF UserOf(c) = {} /\ fail = "insertUser"
    THEN [at |-> "insertUser", status |-> 500,
          body |-> ErrorBody("An error occurred while uploading the document.")]
    ELSE IF fail = "storage"
    THEN [at |-> "storage", status |-> 500,
          body |-> ErrorBody("An error occurred while uploading the document.")]
    ELSE IF fail = "insertDoc"
    THEN [at |-> "insertDoc", status |-> 500,
          body |-> ErrorBody("An error occurred while uploading the document.")]
    ELSE [at |-> "done", status |-> 200,
          body |-> [error |-> None, id |-> nextDocId, status |-> "processing",
                    message |-> "Document uploaded successfully and is being processed."]]

\* The handler went past step `step` (the step ran and did not return or throw).
UploadPassed(exit, step) ==
    exit.at = "done" \/ IndexOf(UploadSteps, step) < IndexOf(UploadSteps, exit.at)

\* Variant that tries the worker once more when the first attempt failed
NotifyCallsRetrying(done, worker) ==
    IF done /\ env.WORKER_URL
    THEN (IF worker = "ok" THEN <<"worker.notify">>
          ELSE <<"worker.notify", "worker.notify">>)
         \o (IF worker = "throws" THEN <<"throw">> ELSE <<>>)
    ELSE <<>>

\* The calls of the notification block: one fetch when WORKER_URL is set, its
\* exception caught
NotifyCalls(done, worker) ==
    IF done /\ env.WORKER_URL
    THEN <<"worker.notify">> \o (IF worker = "throws" THEN <<"throw">> ELSE <<>>)
    ELSE <<>>

NewUser(clerkId) == [id |-> UserUuid(clerkId), clerkId |-> clerkId]

NewDocument(file, userId, storageUrl) ==
    [id |-> nextDocId, userId |-> userId, fileName |-> file.name, fileSize |-> file.size,
     mimeType |-> file.type, storageUrl |-> storageUrl, status |-> "processing",
     chunkCount |-> 0, errorMessage |-> None, createdAt |-> now, updatedAt |-> now]

\* The handler, given the answer lim of limiter.limit
UploadRequest(c, file, lim, hasEmail, fail, worker, delivered) ==
    LET exit == UploadExit(c, file, lim, hasEmail, fail)
        passed(step) == UploadPassed(exit, step)
        userId == UserUuid(c)
        url == StorageUrl(file, userId)
        notified == exit.at = "done" /\ env.WORKER_URL
                    /\ (worker = "ok" \/ delivered)
    IN
    /\ exit.at = "done" => nextDocId <= MaxDocs
    /\ users' = IF passed("insertUser") THEN users \cup {NewUser(c)} ELSE users
    /\ storage' = IF passed("storage") THEN storage \cup {url} ELSE storage
    /\ documents' = IF passed("insertDoc")
                    THEN documents \cup {NewDocument(file, userId, url)}
                    ELSE documents
    /\ docOwner' = IF passed("insertDoc")
                   THEN docOwner \cup {[id |-> nextDocId, userId |-> userId]}
                   ELSE docOwner
    /\ nextDocId' = IF passed("insertDoc") THEN nextDocId + 1 ELSE nextDocId
    /\ inbox' = IF notified
                THEN inbox \cup {[document_id |-> nextDocId, storage_url |-> url,
                                  user_id |-> userId]}
                ELSE inbox
    /\ calls' = (IF passed("auth") THEN LimiterCalls("upload", lim) ELSE <<>>)
                \o (IF passed("rateLimit") THEN <<"request.formData">> ELSE <<>>)
                \o (IF passed("type") THEN <<"users.select">> ELSE <<>>)
                \o (IF passed("selectUser") /\ UserOf(c) = {}
                    THEN <<"clerk.currentUser">> ELSE <<>>)
                \o (IF passed("email") /\ UserOf(c) = {} THEN <<"users.insert">> ELSE <<>>)
                \o (IF passed("insertUser") THEN <<"storage.write">> ELSE <<>>)
                \o (IF passed("storage") THEN <<"documents.insert">> ELSE <<>>)
                \o NotifyCalls(exit.at = "done", worker)
                \o (IF exit.status = 500 THEN <<"throw">> ELSE <<>>)
    /\ resp' = Response("upload", c, [file |-> file], exit.status, exit.body)
    /\ UNCHANGED <<env, now, chunks, queries, points, stream>>

\* A request whose limiter answers lim, whatever its cache holds: the cache
\* is not followed
Upload(c, file, lim, hasEmail, fail, worker, delivered) ==
    /\ UploadRequest(c, file, lim, hasEmail, fail, worker, delivered)
    /\ UNCHANGED <<ratelimit, client, uploader, inflight>>

\* A request in front of a reachable limiter that answers by its cache
LimitedUpload(c, file, hasEmail, fail, worker, delivered) ==
    /\ UploadRequest(c, file, IF c = None THEN "allow" ELSE SlidingWindow("upload", c),
                     hasEmail, fail, worker, delivered)
    /\ ratelimit' = IF c = None THEN ratelimit ELSE Counted("upload", c)
    /\ UNCHANGED <<client, uploader, inflight>>

----------------------------------------------------------------------------
(* The external processing worker: it chunks and embeds a document it was  *)
(* notified of, upserts the vectors into the owner's collection and writes  *)
(* the chunk rows.                                                          *)

Point(userId, docId, idx, content) ==
    [collection |-> getCollectionName(userId), id |-> <<docId, idx>>,
     payload |-> [doc_id |-> docId, chunk_id |-> <<docId, idx>>, content |-> content,
                  page |-> idx, chunk_index |-> idx]]

\* client.upsert(collectionName, {points}): a point replaces the point of the same id.
storeVectors(userId, vectors) ==
    LET new == {Point(userId, v.doc_id, v.chunk_index, v.content) : v \in vectors}
    IN {p \in points : ~\E q \in new : q.collection = p.collection /\ q.id = p.id}
       \cup new

WorkerIndex(msg, n, content) ==
    LET vectors == {[doc_id |-> msg.document_id, chunk_index |-> i, content |-> content]
                        : i \in 1..n}
        rows == {[documentId |-> msg.document_id, chunkIndex |-> i, content |-> content,
                  vectorId |-> <<msg.document_id, i>>] : i \in 1..n}
    IN
    /\ msg \in inbox
    /\ points' = storeVectors(msg.user_id, vectors)
    \* chunks.document_id references documents.id: no row without its document
    /\ chunks' = IF DocById(msg.document_id) # {}
                 THEN {c \in chunks : c.documentId # msg.document_id} \cup rows
                 ELSE chunks
    /\ UNCHANGED <<env, now, users, documents, queries, storage, inbox, ratelimit,
                   client, uploader, inflight, nextDocId,
                   docOwner, stream, resp, calls>>

----------------------------------------------------------------------------
(* app/api/process: POST, the processing webhook *)

\* request.headers.get('X-Worker-Secret'): absent (null), or the value sent
SecretHeaders == {None, "s3cret", "guess"}

\* JSON values of the payload: an absent field is None (status, error_message,
\* document_id 0) or has t = "undefined" (chunk_count).
WebhookStatuses == {None, "", "processing", "ready", "failed", "done"}

ChunkCounts == {[t |-> "undefined", v |-> 0], [t |-> "number", v |-> 0],
                [t |-> "number", v |-> 12], [t |-> "string", v |-> 12]}

ErrorMessages == {None, "", "parse error"}

WebhookBodies ==
    [document_id : 0..(MaxDocs + 1), status : WebhookStatuses,
     chunk_count : ChunkCounts, error_message : ErrorMessages]

WebhookFailures == {"none", "json", "update"}

validStatuses == <<"processing", "ready", "failed">>

\* JavaScript truthiness of a string (or absent) payload field
Truthy(x) == x # None /\ x # ""

\* The secret check of docurag/src/app/api/process/route.ts
SecretAccepted(header) ==
    ~(env.WORKER_SECRET # None /\ header # env.WORKER_SECRET)

\* The secret check of the handler that requires WORKER_SECRET in production:
\* "misconfigured", "unauthorized" or "accepted"
SecretCheckStrict(header) ==
    IF env.NODE_ENV = "production" /\ env.WORKER_SECRET = None THEN "misconfigured"
    ELSE IF env.WORKER_SECRET # None /\ header # env.WORKER_SECRET THEN "unauthorized"
    ELSE "accepted"

\* Variant that sets the status alone
ApplyUpdateStatusOnly(doc, body) ==
    [doc EXCEPT
        !.updatedAt = now,
        !.status = IF Truthy(body.status) THEN body.status ELSE @]

\* Variant that adds the chunk count to the one stored
ApplyUpdateAdding(doc, body) ==
    [doc EXCEPT
        !.updatedAt = now,
        !.status = IF Truthy(body.status) THEN body.status ELSE @,
        !.chunkCount = IF body.chunk_count.t = "number" THEN @ + body.chunk_count.v ELSE @,
        !.errorMessage = IF Truthy(body.error_message) THEN body.error_message ELSE @]

\* Variant that writes every column, the absent ones with their defaults
ApplyUpdateOverwriting(doc, body) ==
    [doc EXCEPT
        !.updatedAt = now,
        !.status = IF Truthy(body.status) THEN body.status ELSE @,
        !.chunkCount = IF body.chunk_count.t = "number" THEN body.chunk_count.v ELSE 0,
        !.errorMessage = IF Truthy(body.error_message) THEN body.error_message ELSE None]

\* updateData as built from the payload: the row with the supplied fields set
ApplyUpdate(doc, body) ==
    [doc EXCEPT
        !.updatedAt = now,
        !.status = IF Truthy(body.status) THEN body.status ELSE @,
        !.chunkCount = IF body.chunk_count.t = "number" THEN body.chunk_count.v ELSE @,
        !.errorMessage = IF Truthy(body.error_message) THEN body.error_message ELSE @]

\* documents.id is a uuid column: a document_id that is not the text of a
\* uuid (here: a negative number) makes the database refuse the statement
IsUuid(id) == id >= 1

\* Variant that looks the row up first and answers 404 when there is none
WebhookAfterAuthSelecting(body, fail) ==
    IF fail = "json"
    THEN [status |-> 500, error |-> "Failed to update document status",
          log |-> <<"request.json", "throw">>, update |-> FALSE]
    ELSE IF body.document_id = 0
    THEN [status |-> 400, error |-> "document_id is required",
          log |-> <<"request.json">>, update |-> FALSE]
    ELSE IF Truthy(body.status) /\ ~Includes(validStatuses, body.status)
    THEN [status |-> 400, error |-> "Invalid status",
          log |-> <<"request.json">>, update |-> FALSE]
    ELSE IF fail = "update" \/ ~IsUuid(body.document_id)
    THEN [status |-> 500, error |-> "Failed to update document status",
          log |-> <<"request.json", "documents.update", "throw">>, update |-> FALSE]
    ELSE IF \A d \in documents : d.id # body.document_id
    THEN [status |-> 404, error |-> "Document not found",
          log |-> <<"request.json", "documents.select">>, update |-> FALSE]
    ELSE [status |-> 200, error |-> None,
          log |-> <<"request.json", "documents.update">>, update |-> TRUE]

\* The part of both handlers after the secret check
WebhookAfterAuth(body, fail) ==
    IF fail = "json"
    THEN [status |-> 500, error |-> "Failed to update document status",
          log |-> <<"request.json", "throw">>, update |-> FALSE]
    ELSE IF body.document_id = 0
    THEN [status |-> 400, error |-> "document_id is required",
          log |-> <<"request.json">>, update |-> FALSE]
    ELSE IF Truthy(body.status) /\ ~Includes(validStatuses, body.status)
    THEN [status |-> 400, error |-> "Invalid status",
          log |-> <<"request.json">>, update |-> FALSE]
    ELSE IF fail = "update" \/ ~IsUuid(body.document_id)
    THEN [status |-> 500, error |-> "Failed to update document status",
          log |-> <<"request.json", "documents.update", "throw">>, update |-> FALSE]
    ELSE [status |-> 200, error |-> None,
          log |-> <<"request.json", "documents.update">>, update |-> TRUE]

WebhookRespond(handler, header, body, out) ==
    /\ documents' = IF out.update
                    THEN {IF d.id = body.document_id THEN ApplyUpdate(d, body) ELSE d
                            : d \in documents}
                    ELSE documents
    /\ calls' = out.log
    /\ resp' = Response(handler, None, [header |-> header, body |-> body], out.status,
                        [error |-> out.error, success |-> out.update])
    /\ UNCHANGED <<env, now, users, chunks, queries, storage, points, inbox, ratelimit,
                   client, uploader, inflight,
                   nextDocId, docOwner, stream>>

ProcessWebhook(header, body, fail) ==
    LET out == IF ~SecretAccepted(header)
               THEN [status |-> 401, error |-> "Unauthorized", log |-> <<>>, update |-> FALSE]
               ELSE WebhookAfterAuth(body, fail)
    IN WebhookRespond("process", header, body, out)

ProcessWebhookStrict(header, body, fail) ==
    LET check == SecretCheckStrict(header)
        out == IF check = "misconfigured"
               THEN [status |-> 500,
                     error |-> "Server misconfiguration: authentication not configured",
                     log |-> <<>>, update |-> FALSE]
               ELSE IF check = "unauthorized"
               THEN [status |-> 401, error |-> "Unauthorized", log |-> <<>>, update |-> FALSE]
               ELSE WebhookAfterAuth(body, fail)
    IN WebhookRespond("processStrict", header, body, out)

----------------------------------------------------------------------------
(* app/api/documents: GET *)

\* searchParams.get(name): null, or the text of the parameter
NoParam == [given |-> FALSE, text |-> <<>>]

Param(text) == [given |-> TRUE, text |-> text]

PageParams == {NoParam, Param(<<"1">>), Param(<<"2">>), Param(<<"x">>)}

LimitParams == {NoParam, Param(<<"1">>), Param(<<"2">>)}

Digits == <<"0", "1", "2", "3", "4", "5", "6", "7", "8", "9">>

IsDigit(ch) == Includes(Digits, ch)

DigitValue(ch) == IndexOf(Digits, ch) - 1

RECURSIVE ParseDigits(_, _, _)
\* The value of the longest run of digits of text from position i on, after acc.
ParseDigits(text, i, acc) ==
    IF i <= Len(text) /\ IsDigit(text[i])
    THEN ParseDigits(text, i + 1, acc * 10 + DigitValue(text[i]))
    ELSE acc

\* parseInt(text, 10) of a text without sign or leading blanks:
\* NaN when it does not start with a digit.
parseInt(text) ==
    IF Len(text) > 0 /\ IsDigit(text[1])
    THEN [nan |-> FALSE, v |-> ParseDigits(text, 1, 0)]
    ELSE [nan |-> TRUE, v |-> 0]

\* searchParams.get(name) || fallback
OrDefault(param, fallback) ==
    IF param.given /\ param.text # <<>> THEN param.text ELSE fallback

\* Variant without the WHERE clause
DocsOfAnyUser(userId) == documents

\* The rows of documents owned by userId
DocsOfUser(userId) == {d \in documents : d.userId = userId}

\* ORDER BY created_at DESC: the orders the database may return the rows in
\* (rows of equal created_at come in any order)
NewestFirstOrders(rows) ==
    {o \in [1..Cardinality(rows) -> rows] :
        /\ \A i, j \in DOMAIN o : i # j => o[i] # o[j]
        /\ \A i, j \in DOMAIN o : i < j => o[i].createdAt >= o[j].createdAt}

\* LIMIT limit OFFSET offset
LimitOffset(rowSeq, limit, offset) ==
    SubSeq(rowSeq, offset + 1, IF offset + limit < Len(rowSeq) THEN offset + limit
                                ELSE Len(rowSeq))

formattedDoc(doc) ==
    [id |-> doc.id, fileName |-> doc.fileName, fileSize |-> doc.fileSize,
     mimeType |-> doc.mimeType, status |-> doc.status, chunkCount |-> doc.chunkCount,
     createdAt |-> doc.createdAt, updatedAt |-> doc.updatedAt,
     errorMessage |-> doc.errorMessage]

ListFailures == {"none", "selectUser", "selectDocs"}

ListDocuments(c, pageParam, limitParam, fail) ==
    LET page == parseInt(OrDefault(pageParam, <<"1">>))
        limit == parseInt(OrDefault(limitParam, <<"2", "0">>))
        offset == (page.v - 1) * limit.v
        req == [page |-> pageParam, limit |-> limitParam]
        failed == Response("list", c, req, 500, ErrorBody("Failed to fetch documents"))
    IN
    /\ IF c = None
       THEN resp' = Response("list", c, req, 401, ErrorBody("Unauthorized")) /\ calls' = <<>>
       ELSE IF fail = "selectUser"
       THEN resp' = failed /\ calls' = <<"users.select", "throw">>
       ELSE IF UserOf(c) = {}
       THEN /\ resp' = Response("list", c, req, 200, [error |-> None, documents |-> <<>>])
            /\ calls' = <<"users.select">>
       \* a NaN or negative LIMIT or OFFSET is refused by the database
       ELSE IF fail = "selectDocs" \/ page.nan \/ limit.nan \/ offset < 0
       THEN resp' = failed /\ calls' = <<"users.select", "documents.select", "throw">>
       ELSE /\ \E o \in NewestFirstOrders(DocsOfUser(UserRow(c).id)) :
                 resp' = Response("list", c, req, 200,
                            [error |-> None,
                             documents |-> [i \in DOMAIN LimitOffset(o, limit.v, offset)
                                              |-> formattedDoc(LimitOffset(o, limit.v, offset)[i])],
                             page |-> page.v, limit |-> limit.v])
            /\ calls' = <<"users.select", "documents.select">>
    /\ UNCHANGED <<env, now, users, documents, chunks, queries, storage, points, inbox,
                   ratelimit, client, uploader, inflight, nextDocId, docOwner, stream>>

----------------------------------------------------------------------------
(* app/api/documents: DELETE *)

DeleteFailures == {"none", "selectUser", "selectDoc", "delete"}

\* Variant that matches the id alone
DocOfAnyOwner(documentId, userId) == {d \in documents : d.id = documentId}

\* .where(and(eq(documents.id, documentId), eq(documents.userId, user.id)))
OwnedDoc(documentId, userId) ==
    {d \in documents : d.id = documentId /\ d.userId = userId}

\* lib/storage.ts deleteDocument: deleting an object that is not there throws
StorageDeleteOk(storageUrl, storageUp) == storageUp /\ storageUrl \in storage

\* lib/vector-store.ts deleteDocumentVectors: the points of the user's
\* collection whose doc_id is documentId
VectorsOfDoc(userId, documentId) ==
    {p \in points : p.collection = getCollectionName(userId)
                    /\ p.payload.doc_id = documentId}

\* Variant without ON DELETE CASCADE: the chunk rows stay.
NoCascade(documentId) == chunks

\* chunks.document_id references documents.id ON DELETE CASCADE: the chunk
\* rows left when the document row is deleted
CascadeChunks(documentId) == {ch \in chunks : ch.documentId # documentId}

\* The step at which DELETE returns and its response; "done" is the success.
DeleteExit(c, documentId, fail) ==
    IF c = None THEN [at |-> "auth", status |-> 401, error |-> "Unauthorized"]
    ELSE IF documentId = 0
    THEN [at |-> "id", status |-> 400, error |-> "Document ID required"]
    ELSE IF fail = "selectUser"
    THEN [at |-> "selectUser", status |-> 500, error |-> "Failed to delete document"]
    ELSE IF UserOf(c) = {}
    THEN [at |-> "user", status |-> 404, error |-> "User not found"]
    ELSE IF fail = "selectDoc"
    THEN [at |-> "selectDoc", status |-> 500, error |-> "Failed to delete document"]
    ELSE IF OwnedDoc(documentId, UserRow(c).id) = {}
    THEN [at |-> "doc", status |-> 404, error |-> "Document not found"]
    ELSE IF fail = "delete"
    THEN [at |-> "delete", status |-> 500, error |-> "Failed to delete document"]
    ELSE [at |-> "done", status |-> 200, error |-> None]

DeleteDocument(c, documentId, fail, storageUp, vectorUp) ==
    LET exit == DeleteExit(c, documentId, fail)
        found == exit.at \in {"delete", "done"}
        userId == UserRow(c).id
        doc == CHOOSE d \in OwnedDoc(documentId, userId) : TRUE
    IN
    /\ storage' = IF found /\ StorageDeleteOk(doc.storageUrl, storageUp)
                  THEN storage \ {doc.storageUrl} ELSE storage
    /\ points' = IF found /\ vectorUp
                 THEN points \ VectorsOfDoc(userId, documentId) ELSE points
    \* db.delete(documents).where(eq(documents.id, documentId)), cascading to chunks
    /\ documents' = IF exit.at = "done"
                    THEN {d \in documents : d.id # documentId} ELSE documents
    /\ chunks' = IF exit.at = "done" THEN CascadeChunks(documentId) ELSE chunks
    /\ calls' = (IF exit.at \in {"auth", "id"} THEN <<>> ELSE <<"users.select">>)
                \o (IF exit.at \in {"selectDoc", "doc", "delete", "done"}
                    THEN <<"documents.select">> ELSE <<>>)
                \o (IF found
                    THEN <<"storage.delete">>
                         \o (IF StorageDeleteOk(doc.storageUrl, storageUp) THEN <<>>
                             ELSE <<"throw">>)
                         \o <<"vector.delete">>
                         \o (IF vectorUp THEN <<>> ELSE <<"throw">>)
                         \o <<"documents.delete">>
                    ELSE <<>>)
                \o (IF exit.status = 500 THEN <<"throw">> ELSE <<>>)
    /\ resp' = Response("delete", c, [id |-> documentId], exit.status,
                        [error |-> exit.error, success |-> exit.at = "done"])
    /\ UNCHANGED <<env, now, users, queries, inbox, ratelimit,
                   client, uploader, inflight, nextDocId, docOwner, stream>>

----------------------------------------------------------------------------
(* Text: String.prototype methods on sequences of characters *)

UpperCase == <<"A", "B", "C", "D", "E", "F", "G", "H", "I", "J", "K", "L", "M",
               "N", "O", "P", "Q", "R", "S", "T", "U", "V", "W", "X", "Y", "Z">>

LowerCase == <<"a", "b", "c", "d", "e", "f", "g", "h", "i", "j", "k", "l", "m",
               "n", "o", "p", "q", "r", "s", "t", "u", "v", "w", "x", "y", "z">>

WhiteSpace == {" ", "\n", "\t"}

toLowerCase(text) ==
    [i \in DOMAIN text |->
        IF Includes(UpperCase, text[i]) THEN LowerCase[IndexOf(UpperCase, text[i])]
        ELSE text[i]]

\* String.prototype.includes
TextIncludes(text, part) ==
    \E i \in 0..(Len(text) - Len(part)) : SubSeq(text, i + 1, i + Len(part)) = part

\* text.startsWith(part, i - 1), for the 1-based position i
StartsWithAt(text, i, part) ==
    i + Len(part) - 1 <= Len(text) /\ SubSeq(text, i, i + Len(part) - 1) = part

\* String.prototype.trim
trim(text) ==
    LET solid == {i \in DOMAIN text : text[i] \notin WhiteSpace}
    IN IF solid = {} THEN <<>>
       ELSE SubSeq(text, CHOOSE i \in solid : \A j \in solid : i <= j,
                         CHOOSE i \in solid : \A j \in solid : j <= i)

\* text.split(' '): the pieces between the spaces, empty pieces included
split(text) ==
    LET spaces == {i \in DOMAIN text : text[i] = " "}
        n == Cardinality(spaces)
        pos(k) == IF k = 0 THEN 0
                  ELSE IF k = n + 1 THEN Len(text) + 1
                  ELSE CHOOSE i \in spaces : Cardinality({j \in spaces : j < i}) = k - 1
    IN [k \in 1..(n + 1) |-> SubSeq(text, pos(k - 1) + 1, pos(k) - 1)]

\* text.split(/\s+/).length: one more than the number of runs of white space
SplitWhiteSpaceLength(text) ==
    Cardinality({i \in DOMAIN text :
                    text[i] \in WhiteSpace /\ (i = 1 \/ text[i - 1] \notin WhiteSpace)}) + 1

\* text.substring(0, n)
substring(text, n) == SubSeq(text, 1, IF Len(text) < n THEN Len(text) ELSE n)

RECURSIVE join(_, _)
\* Array.prototype.join of texts
join(texts, sep) ==
    IF texts = <<>> THEN <<>>
    ELSE IF Len(texts) = 1 THEN texts[1]
    ELSE texts[1] \o sep \o join(Tail(texts), sep)

----------------------------------------------------------------------------
(* lib/utils.ts *)

allowedTypes ==
    <<"application/pdf", "text/plain", "text/markdown", "application/msword",
      "application/vnd.openxmlformats-officedocument.wordprocessingml.document">>

isAllowedFileType(mimeType) == Includes(allowedTypes, mimeType)

\* Variant with strict comparisons: the boundaries fall into the lower band
getConfidenceLevelStrict(score) ==
    IF score.num > 85 * score.den THEN "High"
    ELSE IF score.num > 70 * score.den THEN "Medium"
    ELSE "Low"

\* A score is the fraction num / den of hundredths: 0.85 is [num |-> 85, den |-> 1].
getConfidenceLevel(score) ==
    IF score.num >= 85 * score.den THEN "High"
    ELSE IF score.num >= 70 * score.den THEN "Medium"
    ELSE "Low"

----------------------------------------------------------------------------
(* lib/llm.ts *)

NumberSuffixes ==
    <<<<"%">>, <<"p", "e", "r", "c", "e", "n", "t">>, <<"m", "i", "l", "l", "i", "o", "n">>,
      <<"b", "i", "l", "l", "i", "o", "n">>, <<"t", "h", "o", "u", "s", "a", "n", "d">>>>

strongAssertions ==
    <<<<"a", "l", "w", "a", "y", "s">>, <<"n", "e", "v", "e", "r">>,
      <<"e", "x", "a", "c", "t", "l", "y">>, <<"p", "r", "e", "c", "i", "s", "e", "l", "y">>,
      <<"d", "e", "f", "i", "n", "i", "t", "e", "l", "y">>>>

RECURSIVE DigitsEnd(_, _)
\* The position of the last digit of the run of digits that starts at i
DigitsEnd(text, i) ==
    IF i + 1 <= Len(text) /\ IsDigit(text[i + 1]) THEN DigitsEnd(text, i + 1) ELSE i

\* The end of the match of /\d+(\.\d+)?(%|percent|million|billion|thousand)?/i
\* that starts at the digit at position i
NumberEnd(text, i) ==
    LET e1 == DigitsEnd(text, i)
        e2 == IF e1 + 2 <= Len(text) /\ text[e1 + 1] = "." /\ IsDigit(text[e1 + 2])
              THEN DigitsEnd(text, e1 + 2) ELSE e1
        lower == toLowerCase(text)
        hits == {k \in DOMAIN NumberSuffixes : StartsWithAt(lower, e2 + 1, NumberSuffixes[k])}
    IN IF hits = {} THEN e2
       ELSE e2 + Len(NumberSuffixes[CHOOSE k \in hits : \A m \in hits : k <= m])

RECURSIVE NumbersFrom(_, _)
\* answer.match(/.../gi) from position i on
NumbersFrom(text, i) ==
    IF i > Len(text) THEN <<>>
    ELSE IF IsDigit(text[i])
    THEN <<SubSeq(text, i, NumberEnd(text, i))>> \o NumbersFrom(text, NumberEnd(text, i) + 1)
    ELSE NumbersFrom(text, i + 1)

\* Variant that looks the numbers up as written, without lower-casing them
detectPotentialHallucinationCased(answer, contexts) ==
    LET answerLower == toLowerCase(answer)
        contextText == join([i \in DOMAIN contexts |-> toLowerCase(contexts[i].content)],
                            <<" ">>)
        numbers == NumbersFrom(answer, 1)
    IN \/ \E i \in DOMAIN numbers : ~TextIncludes(contextText, numbers[i])
       \/ \E k \in DOMAIN strongAssertions :
            /\ TextIncludes(answerLower, strongAssertions[k])
            /\ ~TextIncludes(contextText, strongAssertions[k])

detectPotentialHallucination(answer, contexts) ==
    LET answerLower == toLowerCase(answer)
        contextText == join([i \in DOMAIN contexts |-> toLowerCase(contexts[i].content)],
                            <<" ">>)
        numbers == NumbersFrom(answer, 1)
    IN \/ \E i \in DOMAIN numbers : ~TextIncludes(contextText, toLowerCase(numbers[i]))
       \/ \E k \in DOMAIN strongAssertions :
            /\ TextIncludes(answerLower, strongAssertions[k])
            /\ ~TextIncludes(contextText, strongAssertions[k])

\* Math.ceil(text.split(/\s+/).length * 1.3)
tokenCountOf(text) == (SplitWhiteSpaceLength(text) * 13 + 9) \div 10

noResultsAnswer ==
    <<"I", " ", "c", "o", "u", "l", "d", "n", "'", "t", " ", "f", "i", "n", "d", " ",
      "a", "n", "y", " ", "r", "e", "l", "e", "v", "a", "n", "t", " ", "i", "n",
      "f", "o", "r", "m", "a", "t", "i", "o", "n", " ", "i", "n", " ", "y", "o",
      "u", "r", " ", "d", "o", "c", "u", "m", "e", "n", "t", "s", " ", "t", "o",
      " ", "a", "n", "s", "w", "e", "r", " ", "t", "h", "i", "s", " ", "q", "u",
      "e", "s", "t", "i", "o", "n", ".", " ", "P", "l", "e", "a", "s", "e", " ",
      "t", "r", "y", " ", "r", "e", "p", "h", "r", "a", "s", "i", "n", "g", " ",
      "y", "o", "u", "r", " ", "q", "u", "e", "s", "t", "i", "o", "n", " ", "o",
      "r", " ", "u", "p", "l", "o", "a", "d", " ", "m", "o", "r", "e", " ", "r",
      "e", "l", "e", "v", "a", "n", "t", " ", "d", "o", "c", "u", "m", "e", "n",
      "t", "s", ".">>

SOURCES_MARKER ==
    <<"\n", "\n", "_", "_", "S", "O", "U", "R", "C", "E", "S", "_", "_", ":">>

CONFIDENCE_MARKER ==
    <<"_", "_", "C", "O", "N", "F", "I", "D", "E", "N", "C", "E", "_", "_", ":">>

ConfidenceText(label) ==
    IF label = "High" THEN <<"H", "i", "g", "h">>
    ELSE IF label = "Medium" THEN <<"M", "e", "d", "i", "u", "m">>
    ELSE <<"L", "o", "w">>

----------------------------------------------------------------------------
(* lib/vector-store.ts searchVectors *)

\* Cosine similarities (in hundredths) the store may compute for a point
Similarities == {50, 70, 100}

\* The store's ranking of a set of points for one query vector: every point
\* with its similarity, best first
RankingsOver(pts, sims) ==
    {r \in [1..Cardinality(pts) -> [point : pts, score : sims]] :
        /\ \A i, j \in DOMAIN r : i # j => r[i].point # r[j].point
        /\ \A i, j \in DOMAIN r : i < j => r[i].score >= r[j].score}

Rankings(pts) == RankingsOver(pts, Similarities)

RECURSIVE SelectSeq2(_, _)
\* The subsequence of the elements of r that are in keep
SelectSeq2(r, keep) ==
    IF r = <<>> THEN <<>>
    ELSE IF Head(r) \in keep THEN <<Head(r)>> \o SelectSeq2(Tail(r), keep)
    ELSE SelectSeq2(Tail(r), keep)

\* client.search(collectionName, {vector, limit, score_threshold, filter}):
\* documentIds is the list of ids to match (<<>>: no filter)
searchVectors(userId, ranking, documentIds) ==
    LET matching == {h \in Range(ranking) :
                        /\ h.point.collection = getCollectionName(userId)
                        /\ h.score >= SIMILARITY_THRESHOLD
                        /\ documentIds # <<>> => Includes(documentIds, h.point.payload.doc_id)}
        hits == SelectSeq2(ranking, matching)
    IN [i \in 1..(IF Len(hits) < TOP_K THEN Len(hits) ELSE TOP_K) |->
            [id |-> hits[i].point.id, score |-> hits[i].score,
             payload |-> hits[i].point.payload]]

----------------------------------------------------------------------------
(* app/api/query: POST *)

\* The query and documentIds fields of the JSON body
QueryValues ==
    {[t |-> "undefined", v |-> <<>>], [t |-> "number", v |-> <<"7">>],
     [t |-> "string", v |-> <<>>], [t |-> "string", v |-> <<" ", "\n">>],
     [t |-> "string", v |-> <<" ", "q", " ">>]}

NoDocumentIds == [t |-> "undefined", v |-> <<>>]

DocumentIdLists ==
    {NoDocumentIds} \cup
    {[t |-> "array", v |-> ids] :
        ids \in {<<>>} \cup {<<d>> : d \in DocIds}
                \cup {p \in DocIds \X DocIds : p[1] # p[2]}}

\* What the LLM may answer
Answers == {<<"4", "2", "%">>, <<"4", "3", "%">>, <<"N", "e", "v", "e", "r", " ", "4">>, <<>>}

Latencies == {1}

QueryFailures == {"none", "json", "selectUser", "embed", "search", "lookup", "llm",
                  "insert"}

QueryError == "An error occurred while processing your query."

\* Variant that does not trim
QueryMissingUntrimmed(query) == query.t # "string" \/ Len(query.v) = 0

\* !query || typeof query !== 'string' || query.trim().length === 0
QueryMissing(query) == query.t # "string" \/ Len(trim(query.v)) = 0

\* documentIds?.length > 0 ? documentIds : undefined, as the list to match
FilterIds(documentIds) == IF documentIds.t = "array" THEN documentIds.v ELSE <<>>

\* documentIds || []
PersistedIds(documentIds) == IF documentIds.t = "array" THEN documentIds.v ELSE <<>>

\* docNameMap.get(docId) over the rows of documents whose id is among the results'
FileNameOf(docId) ==
    IF DocById(docId) = {} THEN [defined |-> FALSE, v |-> <<>>]
    ELSE [defined |-> TRUE, v |-> (CHOOSE d \in DocById(docId) : TRUE).fileName]

QuerySource(result) ==
    [docId |-> result.payload.doc_id, chunkId |-> result.payload.chunk_id,
     score |-> result.score, page |-> result.payload.page,
     text |-> substring(result.payload.content, 300),
     fileName |-> FileNameOf(result.payload.doc_id)]

\* JSON.stringify of one source: a property whose value is undefined is left out
StringifySource(src) ==
    IF src.fileName.defined
    THEN [docId |-> src.docId, chunkId |-> src.chunkId, score |-> src.score,
          page |-> src.page, text |-> src.text, fileName |-> src.fileName.v]
    ELSE [docId |-> src.docId, chunkId |-> src.chunkId, score |-> src.score,
          page |-> src.page, text |-> src.text]

Stringify(sources) == [i \in DOMAIN sources |-> StringifySource(sources[i])]

RECURSIVE SumScores(_)
\* searchResults.reduce((sum, r) => sum + r.score, 0)
SumScores(results) ==
    IF results = <<>> THEN 0 ELSE Head(results).score + SumScores(Tail(results))

\* hasHallucination ? 'Low' : getConfidenceLevel(avgScore)
ConfidenceOf(answer, results) ==
    IF detectPotentialHallucination(answer,
            [i \in DOMAIN results |-> [content |-> results[i].payload.content]])
    THEN "Low"
    ELSE getConfidenceLevel([num |-> SumScores(results), den |-> Len(results)])

\* Variant that labels the canned answer by the (absent) scores' default band
NoResultsRowUnlabelled(userId, query, documentIds, elapsed) ==
    [userId |-> userId, query |-> trim(query.v), answer |-> noResultsAnswer,
     sources |-> <<>>, confidence |-> "Medium", tokenCount |-> 0, latencyMs |-> elapsed,
     documentIds |-> PersistedIds(documentIds)]

\* The row inserted by the branch for an empty result
NoResultsRow(userId, query, documentIds, elapsed) ==
    [userId |-> userId, query |-> trim(query.v), answer |-> noResultsAnswer,
     sources |-> <<>>, confidence |-> "Low", tokenCount |-> 0, latencyMs |-> elapsed,
     documentIds |-> PersistedIds(documentIds)]

\* The row inserted after generation
AnswerRow(userId, query, documentIds, results, answer, elapsed) ==
    [userId |-> userId, query |-> trim(query.v), answer |-> answer,
     sources |-> Stringify([i \in DOMAIN results |-> QuerySource(results[i])]),
     confidence |-> ConfidenceOf(answer, results), tokenCount |-> tokenCountOf(answer),
     latencyMs |-> elapsed, documentIds |-> PersistedIds(documentIds)]

\* A chunk enqueued on the response stream: text, then (for the sources
\* marker) the JSON of the sources, then the text after it
TextChunk(text) == [pre |-> text, json |-> FALSE, sources |-> <<>>, post |-> <<>>]

SourcesChunk(sources) ==
    [pre |-> SOURCES_MARKER, json |-> TRUE, sources |-> sources, post |-> <<"\n">>]

ConfidenceChunk(label) ==
    TextChunk(CONFIDENCE_MARKER \o ConfidenceText(label) \o <<"\n">>)

\* Variant whose closure holds no sources
NewStreamUnsourced(answer, sources, confidence) ==
    [words |-> split(answer), index |-> 0, sources |-> <<>>,
     confidence |-> confidence, out |-> <<>>, closed |-> FALSE,
     timer |-> TRUE, gone |-> FALSE, cancelled |-> FALSE, thrown |-> 0]

\* new ReadableStream({start}): the words to drip and what the closure holds
\* (sources as JSON.stringify will write them); start() arms the interval
\* timer. gone: the client has gone away; cancelled: the consumer has
\* cancelled the stream; thrown: the callbacks that ended in an uncaught
\* exception (0, or 1 or 2 by parity).
NewStream(answer, sources, confidence) ==
    [words |-> split(answer), index |-> 0, sources |-> Stringify(sources),
     confidence |-> confidence, out |-> <<>>, closed |-> FALSE,
     timer |-> TRUE, gone |-> FALSE, cancelled |-> FALSE, thrown |-> 0]

\* The step at which the handler returns. "empty" and "done" return the stream.
QueryExit(c, lim, query, documentIds, fail, ranking) ==
    LET rl == checkRateLimit("query", lim)
        error500 == [status |-> 500, body |-> ErrorBody(QueryError)]
    IN
    \* new Response('Unauthorized', {status: 401}): a text body, not JSON
    IF c = None THEN [at |-> "auth", status |-> 401, body |-> [text |-> "Unauthorized"]]
    ELSE IF ~rl.success
    THEN [at |-> "rateLimit", status |-> 429,
          body |-> [error |-> "Rate limit exceeded. Please try again later.",
                    remaining |-> rl.remaining]]
    ELSE IF fail = "json" THEN [at |-> "json"] @@ error500
    ELSE IF QueryMissing(query)
    THEN [at |-> "query", status |-> 400, body |-> ErrorBody("Query is required")]
    ELSE IF fail = "selectUser" THEN [at |-> "selectUser"] @@ error500
    ELSE IF UserOf(c) = {}
    THEN [at |-> "user", status |-> 404, body |-> ErrorBody("User not found")]
    ELSE IF fail = "embed" THEN [at |-> "embed"] @@ error500
    ELSE IF fail = "search" THEN [at |-> "search"] @@ error500
    ELSE IF searchVectors(UserRow(c).id, ranking, FilterIds(documentIds)) = <<>>
    THEN (IF fail = "insert" THEN [at |-> "insertEmpty"] @@ error500
          ELSE [at |-> "empty", status |-> 200, body |-> ErrorBody(None)])
    ELSE IF fail = "lookup" THEN [at |-> "lookup"] @@ error500
    ELSE IF fail = "llm" THEN [at |-> "llm"] @@ error500
    ELSE IF fail = "insert" THEN [at |-> "insert"] @@ error500
    ELSE [at |-> "done", status |-> 200, body |-> ErrorBody(None)]

QuerySteps ==
    <<"auth", "rateLimit", "json", "query", "selectUser", "user", "embed", "search",
      "insertEmpty", "empty", "lookup", "llm", "insert", "done">>

\* The steps at which the handler is left by an exception
QueryThrows == {"json", "selectUser", "embed", "search", "insertEmpty", "lookup", "llm",
                "insert"}

\* The calls the handler has made when it returns at step `at`
QueryCalls(at, lim) ==
    LET k == IndexOf(QuerySteps, at)
        past(step) == k >= IndexOf(QuerySteps, step)
    IN (IF past("rateLimit") THEN LimiterCalls("query", lim) ELSE <<>>)
       \o (IF past("json") THEN <<"request.json">> ELSE <<>>)
       \o (IF past("selectUser") THEN <<"users.select">> ELSE <<>>)
       \o (IF past("embed") THEN <<"embed">> ELSE <<>>)
       \o (IF past("search") THEN <<"vector.search">> ELSE <<>>)
       \o (IF at \in {"insertEmpty", "empty"} THEN <<"empty", "queries.insert">> ELSE <<>>)
       \o (IF past("lookup") THEN <<"documents.select">> ELSE <<>>)
       \o (IF past("llm") THEN <<"llm">> ELSE <<>>)
       \o (IF past("insert") THEN <<"queries.insert">> ELSE <<>>)
       \o (IF at \in QueryThrows THEN <<"throw">> ELSE <<>>)

\* Variant that inserts the row before the completion is generated
PersistsBeforeLLM(at) == at \in {"empty", "llm", "insert", "done"}

\* The exits that have db.insert(queries) behind them: the insert is the last
\* call before the stream is returned
Persists(at) == at \in {"empty", "done"}

\* The handler, given the answer lim of limiter.limit
QueryRequest(c, lim, query, documentIds, fail, ranking, answer, elapsed) ==
    LET exit == QueryExit(c, lim, query, documentIds, fail, ranking)
        userId == UserRow(c).id
        results == searchVectors(userId, ranking, FilterIds(documentIds))
        row == IF exit.at = "empty"
               THEN NoResultsRow(userId, query, documentIds, elapsed)
               ELSE AnswerRow(userId, query, documentIds, results, answer, elapsed)
    IN
    /\ exit.at \in {"empty", "done"} => Len(queries) < MaxQueries
    /\ queries' = IF Persists(exit.at) THEN Append(queries, row) ELSE queries
    /\ stream' = IF exit.at = "empty"
                 THEN Append(stream, NewStream(noResultsAnswer, <<>>, "Low"))
                 ELSE IF exit.at = "done"
                 THEN Append(stream,
                             NewStream(answer,
                                       [i \in DOMAIN results |-> QuerySource(results[i])],
                                       ConfidenceOf(answer, results)))
                 ELSE stream
    /\ calls' = QueryCalls(exit.at, lim)
    /\ resp' = Response("query", c, [query |-> query, documentIds |-> documentIds],
                        exit.status,
                        exit.body @@ [streamed |-> IF exit.at \in {"empty", "done"}
                                                   THEN Len(queries) + 1 ELSE 0])
    /\ UNCHANGED <<env, now, users, documents, chunks, storage, points, inbox, nextDocId,
                   docOwner>>

\* A request whose limiter answers lim, whatever its cache holds
Query(c, lim, query, documentIds, fail, ranking, answer, elapsed) ==
    /\ QueryRequest(c, lim, query, documentIds, fail, ranking, answer, elapsed)
    /\ UNCHANGED <<ratelimit, client, uploader, inflight>>

\* Variant of the callback that leaves the stream open and the timer armed
\* after the markers
TickedUnclosed(st) ==
    IF st.cancelled
    THEN [st EXCEPT !.thrown = IF @ = 1 THEN 2 ELSE 1]
    ELSE IF st.index < Len(st.words)
    THEN [st EXCEPT !.out = Append(@, TextChunk(st.words[st.index + 1] \o <<" ">>)),
                    !.index = @ + 1]
    ELSE [st EXCEPT !.out = @ \o <<SourcesChunk(st.sources),
                                   ConfidenceChunk(st.confidence)>>,
                    !.timer = Len(st.out) < Len(st.words) + 4,
                    !.closed = Len(st.out) >= Len(st.words) + 4]

\* The stream after one run of the setInterval callback. On a stream that
\* its consumer has cancelled, controller.enqueue throws: the callback ends
\* there, before index++ and before clearInterval, and the timer stays armed.
Ticked(st) ==
    IF st.cancelled
    THEN [st EXCEPT !.thrown = IF @ = 1 THEN 2 ELSE 1]
    ELSE IF st.index < Len(st.words)
    THEN [st EXCEPT !.out = Append(@, TextChunk(st.words[st.index + 1] \o <<" ">>)),
                    !.index = @ + 1]
    ELSE [st EXCEPT !.out = @ \o <<SourcesChunk(st.sources),
                                   ConfidenceChunk(st.confidence)>>,
                    !.timer = FALSE,
                    !.closed = TRUE]

\* The setInterval callback of the i-th streamed response fires
StreamTick(i) ==
    /\ i \in DOMAIN stream
    /\ stream[i].timer
    /\ stream' = [stream EXCEPT ![i] = Ticked(stream[i])]
    /\ UNCHANGED <<env, now, users, documents, chunks, queries, storage, points, inbox,
                   ratelimit, client, uploader, inflight, nextDocId, docOwner, resp, calls>>

\* The client of the i-th streamed response goes away before the stream has
\* ended. The handler registers no cancel callback and listens to no abort
\* signal; what the runtime does with the body is outside the repository:
\* it cancels the stream (cancels), or it goes on reading it for nobody.
Disconnect(i, cancels) ==
    /\ i \in DOMAIN stream
    /\ ~stream[i].closed /\ ~stream[i].gone
    /\ stream' = [stream EXCEPT ![i].gone = TRUE, ![i].cancelled = cancels]
    /\ UNCHANGED <<env, now, users, documents, chunks, queries, storage, points, inbox,
                   ratelimit, client, uploader, inflight, nextDocId, docOwner, resp, calls>>

----------------------------------------------------------------------------
(* Handlers that run concurrently: one step per await *)

RequestIds == 1..MaxInflight

Started(r) == \E q \in inflight : q.id = r

Req(r) == CHOOSE q \in inflight : q.id = r

\* The requests with q in the place of the request of the same id
Put(q) == {o \in inflight : o.id # q.id} \cup {q}

At(r, op, pc) == Started(r) /\ Req(r).op = op /\ Req(r).pc = pc

NoUrl == [userId |-> <<>>, timestamp |-> 0, name |-> <<>>]

\* Variant without the unique constraint on users.clerk_id
ClerkIdUnchecked(clerkId) == TRUE

\* clerk_id is unique: an insert of a second row of the same clerk_id fails
ClerkIdUnique(clerkId) == UserOf(clerkId) = {}

\* users.id defaults to a random uuid: the fixed uuid of the identity for its
\* first row, another one for any further row
defaultRandom(clerkId) ==
    IF UserOf(clerkId) = {} THEN UserUuid(clerkId) ELSE UserUuid(clerkId) \o <<"-", "b">>

\* POST /api/upload of an authenticated caller with a valid file, up to the
\* validation of the file
BeginUpload(r, c, file) ==
    /\ ~Started(r)
    /\ c # None /\ file # NoFile /\ ~FileTooLarge(file) /\ FileTypeAllowed(file)
    /\ inflight' = inflight \cup
         {[id |-> r, op |-> "upload", caller |-> c, file |-> file, pc |-> "selectUser",
           user |-> <<>>, url |-> NoUrl, docId |-> 0, status |-> 0]}
    /\ UNCHANGED <<env, now, users, documents, chunks, queries, storage, points, inbox,
                   ratelimit, client, uploader, nextDocId, docOwner, stream, resp, calls>>

\* let [user] = await db.select().from(users).where(...).limit(1)
UploadSelectUser(r) ==
    /\ At(r, "upload", "selectUser")
    /\ inflight' = Put(IF UserOf(Req(r).caller) = {}
                       THEN [Req(r) EXCEPT !.pc = "insertUser"]
                       ELSE [Req(r) EXCEPT !.pc = "storage",
                                           !.user = UserRow(Req(r).caller).id])
    /\ UNCHANGED <<env, now, users, documents, chunks, queries, storage, points, inbox,
                   ratelimit, client, uploader, nextDocId, docOwner, stream, resp, calls>>

\* [user] = await db.insert(users).values({clerkId, ...}).returning(); the
\* exception of a refused insert is caught at the end of the handler: 500
UploadInsertUser(r) ==
    LET q == Req(r)
        row == [id |-> defaultRandom(q.caller), clerkId |-> q.caller]
    IN
    /\ At(r, "upload", "insertUser")
    /\ IF ClerkIdUnique(q.caller)
       THEN /\ users' = users \cup {row}
            /\ inflight' = Put([q EXCEPT !.pc = "storage", !.user = row.id])
            /\ UNCHANGED <<resp, calls>>
       ELSE /\ users' = users
            /\ inflight' = Put([q EXCEPT !.pc = "answered", !.status = 500])
            /\ resp' = Response("upload", q.caller, [file |-> q.file], 500,
                          ErrorBody("An error occurred while uploading the document."))
            /\ calls' = <<"users.select", "clerk.currentUser", "users.insert", "throw">>
    /\ UNCHANGED <<env, now, documents, chunks, queries, storage, points, inbox,
                   ratelimit, client, uploader, nextDocId, docOwner, stream>>

\* const storageUrl = await uploadDocument(file, user.id)
UploadStore(r) ==
    LET q == Req(r)
        url == StorageUrl(q.file, q.user)
    IN
    /\ At(r, "upload", "storage")
    /\ storage' = storage \cup {url}
    /\ inflight' = Put([q EXCEPT !.pc = "insertDoc", !.url = url])
    /\ UNCHANGED <<env, now, users, documents, chunks, queries, points, inbox,
                   ratelimit, client, uploader, nextDocId, docOwner, stream, resp, calls>>

\* await db.insert(documents)...returning(), the notification of the worker
\* and the success response
UploadInsertDoc(r) ==
    LET q == Req(r) IN
    /\ At(r, "upload", "insertDoc")
    /\ nextDocId <= MaxDocs
    /\ documents' = documents \cup {NewDocument(q.file, q.user, q.url)}
    /\ docOwner' = docOwner \cup {[id |-> nextDocId, userId |-> q.user]}
    /\ nextDocId' = nextDocId + 1
    /\ inbox' = IF env.WORKER_URL
                THEN inbox \cup {[document_id |-> nextDocId, storage_url |-> q.url,
                                  user_id |-> q.user]}
                ELSE inbox
    /\ inflight' = Put([q EXCEPT !.pc = "answered", !.status = 200, !.docId = nextDocId])
    /\ resp' = Response("upload", q.caller, [file |-> q.file], 200,
                  [error |-> None, id |-> nextDocId, status |-> "processing",
                   message |-> "Document uploaded successfully and is being processed."])
    /\ calls' = <<"storage.write", "documents.insert">> \o NotifyCalls(TRUE, "ok")
    /\ UNCHANGED <<env, now, users, chunks, queries, storage, points,
                   ratelimit, client, uploader, stream>>

\* DELETE /api/documents?id=documentId of an authenticated caller; existed
\* notes whether the row was there when the request came in
BeginDelete(r, c, documentId) ==
    /\ ~Started(r)
    /\ c # None /\ documentId # 0
    /\ inflight' = inflight \cup
         {[id |-> r, op |-> "delete", caller |-> c, documentId |-> documentId,
           existed |-> DocById(documentId) # {},
           pc |-> "selectUser", user |-> <<>>, url |-> NoUrl, status |-> 0]}
    /\ UNCHANGED <<env, now, users, documents, chunks, queries, storage, points, inbox,
                   ratelimit, client, uploader, nextDocId, docOwner, stream, resp, calls>>

\* The answer of DELETE with status, as the last response
DeleteAnswer(q, status, error) ==
    Response("delete", q.caller, [id |-> q.documentId], status,
             [error |-> error, success |-> status = 200])

DeleteSelectUser(r) ==
    LET q == Req(r) IN
    /\ At(r, "delete", "selectUser")
    /\ IF UserOf(q.caller) = {}
       THEN /\ inflight' = Put([q EXCEPT !.pc = "answered", !.status = 404])
            /\ resp' = DeleteAnswer(q, 404, "User not found")
            /\ calls' = <<"users.select">>
       ELSE /\ inflight' = Put([q EXCEPT !.pc = "selectDoc", !.user = UserRow(q.caller).id])
            /\ UNCHANGED <<resp, calls>>
    /\ UNCHANGED <<env, now, users, documents, chunks, queries, storage, points, inbox,
                   ratelimit, client, uploader, nextDocId, docOwner, stream>>

DeleteSelectDoc(r) ==
    LET q == Req(r)
        found == OwnedDoc(q.documentId, q.user)
    IN
    /\ At(r, "delete", "selectDoc")
    /\ IF found = {}
       THEN /\ inflight' = Put([q EXCEPT !.pc = "answered", !.status = 404])
            /\ resp' = DeleteAnswer(q, 404, "Document not found")
            /\ calls' = <<"users.select", "documents.select">>
       ELSE /\ inflight' = Put([q EXCEPT !.pc = "storage",
                                         !.url = (CHOOSE d \in found : TRUE).storageUrl])
            /\ UNCHANGED <<resp, calls>>
    /\ UNCHANGED <<env, now, users, documents, chunks, queries, storage, points, inbox,
                   ratelimit, client, uploader, nextDocId, docOwner, stream>>

\* Variant that lets the exception of the storage through to the handler's catch
AfterStorageDeleteUncaught(ok) == IF ok THEN "vectors" ELSE "failed"

\* try { await deleteDocument(doc.storageUrl) } catch { ... }: the handler
\* goes on to the vectors whether the object was deleted or not
AfterStorageDelete(ok) == "vectors"

DeleteStorage(r, storageUp) ==
    LET q == Req(r)
        ok == StorageDeleteOk(q.url, storageUp)
        next == AfterStorageDelete(ok)
    IN
    /\ At(r, "delete", "storage")
    /\ storage' = IF ok THEN storage \ {q.url} ELSE storage
    /\ IF next = "failed"
       THEN /\ inflight' = Put([q EXCEPT !.pc = "answered", !.status = 500])
            /\ resp' = DeleteAnswer(q, 500, "Failed to delete document")
            /\ calls' = <<"storage.delete", "throw">>
       ELSE /\ inflight' = Put([q EXCEPT !.pc = next])
            /\ UNCHANGED <<resp, calls>>
    /\ UNCHANGED <<env, now, users, documents, chunks, queries, points, inbox,
                   ratelimit, client, uploader, nextDocId, docOwner, stream>>

\* try { await deleteDocumentVectors(user.id, documentId) } catch { ... }
DeleteVectors(r, vectorUp) ==
    LET q == Req(r) IN
    /\ At(r, "delete", "vectors")
    /\ points' = IF vectorUp THEN points \ VectorsOfDoc(q.user, q.documentId) ELSE points
    /\ inflight' = Put([q EXCEPT !.pc = "deleteRow"])
    /\ UNCHANGED <<env, now, users, documents, chunks, queries, storage, inbox,
                   ratelimit, client, uploader, nextDocId, docOwner, stream, resp, calls>>

\* await db.delete(documents).where(eq(documents.id, documentId)) and the
\* success response; a delete that matches no row is no error
DeleteRow(r) ==
    LET q == Req(r) IN
    /\ At(r, "delete", "deleteRow")
    /\ documents' = {d \in documents : d.id # q.documentId}
    /\ chunks' = CascadeChunks(q.documentId)
    /\ inflight' = Put([q EXCEPT !.pc = "answered", !.status = 200])
    /\ resp' = DeleteAnswer(q, 200, None)
    /\ calls' = <<"documents.delete">>
    /\ UNCHANGED <<env, now, users, queries, storage, points, inbox,
                   ratelimit, client, uploader, nextDocId, docOwner, stream>>

----------------------------------------------------------------------------
(* components/query-interface: handleQuery reading the response stream *)

\* JSON.stringify(sources) as text: brackets and commas, and for the k-th
\* source one symbol that stands for the text of that object
JsonText(sources) ==
    <<"[">> \o join([k \in DOMAIN sources |-> <<"{" \o ToString(k) \o "}">>], <<",">>)
            \o <<"]">>

\* The characters of one enqueued chunk
ChunkText(chunk) ==
    chunk.pre \o (IF chunk.json THEN JsonText(chunk.sources) ELSE <<>>) \o chunk.post

\* The characters the i-th response has sent so far
Wire(i) == join([k \in DOMAIN stream[i].out |-> ChunkText(stream[i].out[k])], <<>>)

\* JSON.parse of a text read from the i-th response: the sources whose text
\* it is; any other text read from it is a fragment and does not parse
JSONParse(text, i) ==
    IF text = JsonText(stream[i].sources)
    THEN [ok |-> TRUE, v |-> stream[i].sources]
    ELSE [ok |-> FALSE, v |-> <<>>]

CLIENT_SOURCES == <<"_", "_", "S", "O", "U", "R", "C", "E", "S", "_", "_", ":">>

CLIENT_CONFIDENCE == CONFIDENCE_MARKER

\* text.split(marker): parts[0] and parts[1], for a text that includes marker
SplitAt(text, marker) ==
    LET at(k) == SubSeq(text, k + 1, k + Len(marker)) = marker
        first == CHOOSE k \in 0..(Len(text) - Len(marker)) :
                    at(k) /\ \A m \in 0..(k - 1) : ~at(m)
        rest == SubSeq(text, first + Len(marker) + 1, Len(text))
        more == {k \in 0..(Len(rest) - Len(marker)) :
                    SubSeq(rest, k + 1, k + Len(marker)) = marker}
    IN [head |-> SubSeq(text, 1, first),
        tail |-> IF more = {} THEN rest
                 ELSE SubSeq(rest, 1, CHOOSE k \in more : \A m \in more : k <= m)]

\* The match of /^([^\n]+)/: the characters before the first line feed
FirstLine(text) ==
    LET feeds == {k \in DOMAIN text : text[k] = "\n"}
    IN IF feeds = {} THEN text
       ELSE SubSeq(text, 1, (CHOOSE k \in feeds : \A m \in feeds : k <= m) - 1)

\* text.replace(/^[^\n]+\n?/, '')
DropFirstLine(text) ==
    LET n == Len(FirstLine(text))
    IN IF n = 0 THEN text
       ELSE IF n < Len(text) THEN SubSeq(text, n + 2, Len(text))
       ELSE <<>>

\* The match of /^(High|Medium|Low)/
ConfidenceMatch(text) ==
    LET labels == {l \in {"High", "Medium", "Low"} :
                      StartsWithAt(text, 1, ConfidenceText(l))}
    IN IF labels = {} THEN None ELSE CHOOSE l \in labels : TRUE

NoSources == [set |-> FALSE, v |-> <<>>]

\* The component before a query: nothing shown, no response being read
NewClient ==
    [reading |-> 0, pos |-> 0, aligned |-> TRUE, answer |-> <<>>, sources |-> NoSources,
     confidence |-> None, buffer |-> <<>>, isStreaming |-> FALSE, done |-> FALSE]

\* handleQuery up to response.body.getReader(), for the i-th response
ClientStart(i) ==
    /\ client.reading = 0
    /\ i \in DOMAIN stream /\ ~stream[i].gone
    /\ client' = [NewClient EXCEPT !.reading = i, !.isStreaming = TRUE]
    /\ UNCHANGED <<env, now, users, documents, chunks, queries, storage, points, inbox,
                   ratelimit, uploader, inflight, nextDocId, docOwner, stream, resp, calls>>

\* The body of the loop for a read that returns chunk
ClientAfterRead(chunk) ==
    LET buffer == client.buffer \o chunk
        i == client.reading
    IN
    IF TextIncludes(buffer, CLIENT_SOURCES)
    THEN LET parts == SplitAt(buffer, CLIENT_SOURCES)
             line == FirstLine(parts.tail)
             parsed == JSONParse(line, i)
         IN [client EXCEPT !.answer = @ \o parts.head,
                           !.sources = IF line # <<>> /\ parsed.ok
                                       THEN [set |-> TRUE, v |-> parsed.v] ELSE @,
                           !.buffer = DropFirstLine(parts.tail)]
    ELSE IF TextIncludes(buffer, CLIENT_CONFIDENCE)
    THEN LET parts == SplitAt(buffer, CLIENT_CONFIDENCE)
             label == ConfidenceMatch(parts.tail)
         IN [client EXCEPT !.confidence = IF label # None THEN label ELSE @,
                           !.buffer = DropFirstLine(parts.tail)]
    ELSE [client EXCEPT !.answer = @ \o buffer, !.buffer = <<>>]

\* The ends of the chunks the i-th response has enqueued, as positions of its text
ChunkEnds(i) ==
    {Len(join([k \in 1..n |-> ChunkText(stream[i].out[k])], <<>>)) :
        n \in 1..Len(stream[i].out)}

\* reader.read() returns the next n characters that have arrived
ClientRead(n) ==
    LET i == client.reading
        wire == Wire(i)
        after == ClientAfterRead(SubSeq(wire, client.pos + 1, client.pos + n))
        whole == /\ client.pos + n \in ChunkEnds(i)
                 /\ \A e \in ChunkEnds(i) : ~(client.pos < e /\ e < client.pos + n)
    IN
    /\ i # 0 /\ ~client.done
    /\ n \in 1..(Len(wire) - client.pos)
    /\ client' = [after EXCEPT !.pos = @ + n, !.aligned = @ /\ whole]
    /\ UNCHANGED <<env, now, users, documents, chunks, queries, storage, points, inbox,
                   ratelimit, uploader, inflight, nextDocId, docOwner, stream, resp, calls>>

\* reader.read() returns done: the rest of the buffer is shown unless it
\* holds "__", and isStreaming is reset
ClientEnd ==
    LET i == client.reading IN
    /\ i # 0 /\ ~client.done
    /\ stream[i].closed /\ client.pos = Len(Wire(i))
    /\ client' = [client EXCEPT
                    !.answer = IF client.buffer # <<>>
                                  /\ ~TextIncludes(client.buffer, <<"_", "_">>)
                               THEN @ \o client.buffer ELSE @,
                    !.isStreaming = FALSE, !.done = TRUE]
    /\ UNCHANGED <<env, now, users, documents, chunks, queries, storage, points, inbox,
                   ratelimit, uploader, inflight, nextDocId, docOwner, stream, resp, calls>>

----------------------------------------------------------------------------
(* components/document-upload *)

\* The component's files state, the next ids of crypto.randomUUID and of the
\* running calls, the running calls of uploadAllFiles and of Retry (each in
\* its fetch), and the number of POSTs issued per file
NewUploader ==
    [files |-> <<>>, nextFile |-> 1, runs |-> {}, nextRun |-> 1,
     posts |-> [i \in 1..MaxFiles |-> 0]]

\* validateFile
validateFile(file) == ~FileTooLarge(file) /\ FileTypeAllowed(file)

StatusOf(files, id) ==
    IF \E i \in DOMAIN files : files[i].id = id
    THEN files[CHOOSE i \in DOMAIN files : files[i].id = id].status
    ELSE "absent"

\* prev.map((f) => (f.id === id ? { ...f, status } : f))
SetStatus(files, id, status) ==
    [i \in DOMAIN files |->
        IF files[i].id = id THEN [files[i] EXCEPT !.status = status] ELSE files[i]]

pendingFiles(files) ==
    LET IsPending(f) == f.status = "pending" IN SelectSeq(files, IsPending)

pendingCount == Len(pendingFiles(uploader.files))

isUploading == \E i \in DOMAIN uploader.files : uploader.files[i].status = "uploading"

\* addFiles: the files that pass validateFile are appended as pending
addFiles(newFiles) ==
    LET valid == SelectSeq(newFiles, validateFile)
        rows == [i \in DOMAIN valid |->
                    [id |-> uploader.nextFile + i - 1, file |-> valid[i],
                     status |-> "pending"]]
    IN
    /\ uploader.nextFile + Len(valid) - 1 <= MaxFiles
    /\ uploader' = [uploader EXCEPT !.files = @ \o rows, !.nextFile = @ + Len(valid)]
    /\ UNCHANGED <<env, now, users, documents, chunks, queries, storage, points, inbox,
                   ratelimit, client, inflight, nextDocId, docOwner, stream, resp, calls>>

\* The X button, rendered for a file whose status is pending
removeFile(id) ==
    LET Others(f) == f.id # id IN
    /\ StatusOf(uploader.files, id) = "pending"
    /\ uploader' = [uploader EXCEPT !.files = SelectSeq(@, Others)]
    /\ UNCHANGED <<env, now, users, documents, chunks, queries, storage, points, inbox,
                   ratelimit, client, inflight, nextDocId, docOwner, stream, resp, calls>>

\* uploadFile up to its fetch: the file of that id is set to uploading and the
\* POST is issued
StartedUpload(u, f) ==
    [u EXCEPT !.files = SetStatus(@, f.id, "uploading"), !.posts[f.id] = @ + 1]

\* The Upload button, rendered when pendingCount > 0 and disabled while
\* isUploading: uploadAllFiles takes the pending files as they are now and
\* begins with the first
uploadAllFiles ==
    LET snapshot == pendingFiles(uploader.files)
        run == [id |-> uploader.nextRun, kind |-> "all", cur |-> Head(snapshot),
                rest |-> Tail(snapshot)]
    IN
    /\ pendingCount > 0 /\ ~isUploading
    /\ uploader.nextRun <= MaxRuns
    /\ uploader' = [StartedUpload(uploader, Head(snapshot))
                        EXCEPT !.runs = @ \cup {run}, !.nextRun = @ + 1]
    /\ UNCHANGED <<env, now, users, documents, chunks, queries, storage, points, inbox,
                   ratelimit, client, inflight, nextDocId, docOwner, stream, resp, calls>>

\* The Retry button, rendered for a file whose status is error
Retry(id) ==
    LET f == uploader.files[CHOOSE i \in DOMAIN uploader.files : uploader.files[i].id = id]
        run == [id |-> uploader.nextRun, kind |-> "retry", cur |-> f, rest |-> <<>>]
    IN
    /\ StatusOf(uploader.files, id) = "error"
    /\ uploader.nextRun <= MaxRuns
    /\ uploader' = [StartedUpload(uploader, f)
                        EXCEPT !.runs = @ \cup {run}, !.nextRun = @ + 1]
    /\ UNCHANGED <<env, now, users, documents, chunks, queries, storage, points, inbox,
                   ratelimit, client, inflight, nextDocId, docOwner, stream, resp, calls>>

\* The rest of uploadFile once its fetch has settled, and the continuation
\* of the run: the file is set to success or error, and uploadAllFiles goes
\* on to the next file of its snapshot
Settled(run, ok) ==
    LET done == [uploader EXCEPT
                    !.files = SetStatus(@, run.cur.id, IF ok THEN "success" ELSE "error")]
    IN
    IF run.rest = <<>>
    THEN [done EXCEPT !.runs = @ \ {run}]
    ELSE [StartedUpload(done, Head(run.rest))
            EXCEPT !.runs = (@ \ {run})
                            \cup {[run EXCEPT !.cur = Head(run.rest), !.rest = Tail(@)]}]

\* The server handles the POST of a run and the response reaches the
\* component: response.ok is a 2xx status
UploadResponse(run, c, fail) ==
    /\ run \in uploader.runs
    /\ UploadRequest(c, run.cur.file, "allow", TRUE, fail, "ok", TRUE)
    /\ uploader' = Settled(run, resp'.status \in 200..299)
    /\ UNCHANGED <<ratelimit, client, inflight>>

\* fetch rejects: the request did not reach the server
UploadNetworkError(run) ==
    /\ run \in uploader.runs
    /\ uploader' = Settled(run, FALSE)
    /\ UNCHANGED <<env, now, users, documents, chunks, queries, storage, points, inbox,
                   ratelimit, client, inflight, nextDocId, docOwner, stream, resp, calls>>

----------------------------------------------------------------------------
(* Time passes *)

AdvanceClock ==
    /\ now < MaxClock
    /\ now' = now + 1
    /\ UNCHANGED <<env, users, documents, chunks, queries, storage, points, inbox,
                   ratelimit, client, uploader, inflight, nextDocId, docOwner, stream, resp, calls>>

----------------------------------------------------------------------------

Init ==
    /\ env \in Envs
    /\ now = 0
    /\ users = {}
    /\ documents = {}
    /\ chunks = {}
    /\ queries = <<>>
    /\ storage = {}
    /\ points = {}
    /\ inbox = {}
    /\ ratelimit = [limiter \in {"upload", "query"} |-> [c \in ClerkIds |-> <<>>]]
    /\ nextDocId = 1
    /\ docOwner = {}
    /\ stream = <<>>
    /\ resp = Response("none", None, [id |-> 0], 0, ErrorBody(None))
    /\ calls = <<>>
    /\ client = NewClient
    /\ uploader = NewUploader
    /\ inflight = {}

\* A 2 MB PDF
ValidFile == [name |-> FileName, size |-> 2 * 1024 * 1024, type |-> "application/pdf"]

\* An upload that goes through: the limiter allows it, nothing throws, the
\* worker takes the notification.
UploadValid(c) == Upload(c, ValidFile, "allow", TRUE, "none", "ok", TRUE)

\* The worker's own callback after indexing
WorkerReady(header, id) ==
    ProcessWebhook(header, [document_id |-> id, status |-> "ready",
                            chunk_count |-> [t |-> "number", v |-> 12],
                            error_message |-> None], "none")

----------------------------------------------------------------------------
(* Specification of the document lifecycle: uploads, indexing by the worker, *)
(* webhook callbacks, listings and deletions by two identities.             *)

InitLifecycle ==
    /\ Init
    /\ env.NODE_ENV = "development" /\ env.WORKER_URL /\ ~env.UPSTASH
    /\ env.WORKER_SECRET = None

Next ==
    \/ \E c \in ClerkIds : UploadValid(c)
    \/ \E msg \in inbox, n \in 1..MaxChunks : WorkerIndex(msg, n, <<"n", "o">>)
    \/ \E id \in DocIds : WorkerReady(None, id)
    \/ \E c \in ClerkIds \cup {None}, fail \in ListFailures :
            ListDocuments(c, NoParam, NoParam, fail)
    \/ \E c \in ClerkIds \cup {None}, id \in 0..(MaxDocs + 1) :
         \/ \E fail \in DeleteFailures : DeleteDocument(c, id, fail, TRUE, TRUE)
         \/ \E storageUp \in BOOLEAN, vectorUp \in BOOLEAN :
                DeleteDocument(c, id, "none", storageUp, vectorUp)

Spec == InitLifecycle /\ [][Next]_vars

----------------------------------------------------------------------------
(* Properties of the document lifecycle (specification Spec) *)

\* The users.id of the identity that made the last request
CallerIds == {u.id : u \in {u \in users : u.clerkId = resp.caller}}

\* C1: every document a listing returns to a caller was inserted for that
\* caller: a listing never contains a document of another user.
C1_ListingOnlyOwnDocuments ==
    (resp.op = "list" /\ resp.status = 200) =>
        \A i \in DOMAIN resp.body.documents :
            \E o \in docOwner : /\ o.id = resp.body.documents[i].id
                                /\ o.userId \in CallerIds

\* A listing that returns a document while another user has documents too
C1_Witness ==
    /\ resp.op = "list" /\ resp.status = 200
    /\ Len(resp.body.documents) >= 1
    /\ \E d \in documents : d.userId \notin CallerIds

\* C3: a DELETE by an authenticated caller with an id that names no document
\* of the caller (no such row, or a row of another user) removes no document
\* or chunk row, attempts neither the storage nor the vector deletion, and,
\* unless a lookup throws, answers 404.
C3_DeleteNotOwnedChangesNothing ==
    [][(/\ resp' # resp
        /\ resp'.op = "delete" /\ resp'.caller # None /\ resp'.req.id # 0
        /\ ~\E d \in documents, u \in users :
                d.id = resp'.req.id /\ u.clerkId = resp'.caller /\ d.userId = u.id)
       => /\ documents' = documents /\ chunks' = chunks
          /\ storage' = storage /\ points' = points
          /\ ~Includes(calls', "storage.delete") /\ ~Includes(calls', "vector.delete")
          /\ ~Includes(calls', "documents.delete")
          /\ Last(calls') # "throw" => resp'.status = 404]_vars

\* A second DELETE of an id the caller has deleted before is answered 404
C3_Witness ==
    /\ resp.op = "delete" /\ resp.status = 404
    /\ \E o \in docOwner : o.id = resp.req.id /\ o.userId \in CallerIds
    /\ DocById(resp.req.id) = {}

\* C5: when the owner deletes an existing document and the relational calls
\* do not throw, the document row and its chunk rows are gone and the
\* response is success, whatever the storage and the vector deletion did;
\* both are attempted, the storage deletion first, before the relational
\* delete.
C5_OwnerDeleteRemovesRows ==
    [][(/\ resp' # resp
        /\ resp'.op = "delete"
        /\ \E d \in documents, u \in users :
                d.id = resp'.req.id /\ u.clerkId = resp'.caller /\ d.userId = u.id
        /\ Last(calls') # "throw")
       => /\ resp'.status = 200 /\ resp'.body.success
          /\ ~\E d \in documents' : d.id = resp'.req.id
          /\ ~\E ch \in chunks' : ch.documentId = resp'.req.id
          /\ LET attempts == SelectSeq(calls', LAMBDA x : x \notin {"throw", "users.select",
                                                                  "documents.select"})
             IN attempts = <<"storage.delete", "vector.delete", "documents.delete">>]_vars

\* A successful deletion of an indexed document in which both the storage
\* and the vector deletion threw
C5_Witness ==
    /\ resp.op = "delete" /\ resp.status = 200
    /\ calls = <<"users.select", "documents.select", "storage.delete", "throw",
                 "vector.delete", "throw", "documents.delete">>
    /\ \E p \in points : p.payload.doc_id = resp.req.id

----------------------------------------------------------------------------
(* Specification of the query handler: clerk_1 uploads and the worker       *)
(* indexes; clerk_2 has no document; queries of both are handled.           *)

InitQuery ==
    /\ Init
    /\ env.NODE_ENV = "development" /\ env.WORKER_URL /\ env.UPSTASH
    /\ env.WORKER_SECRET = None

ValidQuery == [t |-> "string", v |-> <<" ", "q", " ">>]

SomeDocumentIds == {NoDocumentIds, [t |-> "array", v |-> <<>>], [t |-> "array", v |-> <<1>>]}

\* A request that is answered needs room in the (bounded) table of queries.
Room(c) == Len(queries) < MaxQueries \/ UserOf(c) = {}

NextQuery ==
    \/ UploadValid("clerk_1")
    \* an upload of clerk_2 that creates the user row and fails at the storage write
    \/ Upload("clerk_2", ValidFile, "allow", TRUE, "storage", "ok", TRUE)
    \/ \E msg \in inbox, n \in 1..MaxChunks : WorkerIndex(msg, n, <<"4", "2", "%">>)
    \* requests that are turned away before the search
    \/ \E lim \in LimiterOutcomes :
            Query(None, lim, ValidQuery, NoDocumentIds, "none", <<>>, <<>>, 1)
    \/ \E c \in ClerkIds : Query(c, "deny", ValidQuery, NoDocumentIds, "none", <<>>, <<>>, 1)
    \/ \E c \in ClerkIds, query \in QueryValues \ {ValidQuery} :
            Query(c, "allow", query, NoDocumentIds, "none", <<>>, <<>>, 1)
    \* requests in which a call throws
    \/ \E fail \in QueryFailures \ {"none"}, ranking \in Rankings(points) :
            Query("clerk_1", "allow", ValidQuery, NoDocumentIds, fail, ranking, <<>>, 1)
    \/ Query("clerk_2", "allow", ValidQuery, NoDocumentIds, "selectUser", <<>>, <<>>, 1)
    \* requests that are answered
    \/ \E c \in ClerkIds, ranking \in Rankings(points), answer \in Answers,
          elapsed \in Latencies :
            /\ Room(c)
            /\ Query(c, "allow", ValidQuery, NoDocumentIds, "none", ranking, answer, elapsed)
    \/ \E documentIds \in SomeDocumentIds, ranking \in Rankings(points) :
            /\ Room("clerk_1")
            /\ Query("clerk_1", "throw", ValidQuery, documentIds, "none", ranking,
                     <<"4", "2", "%">>, 1)

SpecQuery == InitQuery /\ [][NextQuery]_vars

\* A step of the query handler
QueryStep == resp' # resp /\ resp'.op = "query"

QueryRowFields ==
    {"userId", "query", "answer", "sources", "confidence", "tokenCount", "latencyMs",
     "documentIds"}

\* The row the step has appended and the stream it has returned
RowWritten(row) ==
    /\ queries' = Append(queries, row)
    /\ Len(stream') = Len(stream) + 1
    /\ SubSeq(stream', 1, Len(stream)) = stream

\* C6: every query request either writes exactly one complete row (question,
\* answer, sources, confidence, token count, latency, scoped document ids)
\* and returns the stream of that answer, or writes no row and answers with
\* an error; when the embedding call, the vector search, the file-name lookup
\* or the LLM call throws, the answer is the generic 500 and there is no row.
C6_RowAndStreamOrError ==
    [][QueryStep =>
        /\ \/ /\ resp'.status = 200
              /\ Len(queries') = Len(queries) + 1
              /\ LET row == Last(queries')
                     st == Last(stream')
                 IN /\ RowWritten(row)
                    /\ DOMAIN row = QueryRowFields
                    /\ row.userId \in {u.id : u \in {u \in users : u.clerkId = resp'.caller}}
                    /\ row.query = trim(resp'.req.query.v) /\ row.query # <<>>
                    /\ row.confidence \in {"High", "Medium", "Low"}
                    /\ row.tokenCount >= 0 /\ row.latencyMs >= 0
                    /\ row.documentIds = (IF resp'.req.documentIds.t = "array"
                                          THEN resp'.req.documentIds.v ELSE <<>>)
                    /\ join(st.words, <<" ">>) = row.answer
                    /\ st.sources = row.sources /\ st.confidence = row.confidence
                    /\ st.index = 0 /\ ~st.closed
           \/ /\ \/ resp'.status = 401 /\ resp'.body.text = "Unauthorized"
                 \/ resp'.status \in {400, 404, 429, 500} /\ resp'.body.error # None
              /\ queries' = queries /\ stream' = stream
        /\ (/\ Len(calls') >= 2 /\ Last(calls') = "throw"
            /\ calls'[Len(calls') - 1] \in {"embed", "vector.search", "documents.select",
                                            "llm"})
           => /\ resp'.status = 500
              /\ resp'.body.error = "An error occurred while processing your query."
              /\ queries' = queries]_vars

\* A request of a user with indexed documents in which the LLM call threw
C6_Witness ==
    /\ resp.op = "query" /\ resp.status = 500
    /\ Len(calls) >= 2 /\ calls[Len(calls) - 1] = "llm" /\ Last(calls) = "throw"
    /\ queries = <<>>

\* C7: when the search finds nothing for a valid query of an existing user
\* (and the insert does not throw), the handler writes exactly one row with
\* the canned answer, no sources and confidence "Low", calls no LLM, and
\* returns the stream of the canned answer.
C7_NoResultsCannedAnswer ==
    [][(QueryStep /\ Includes(calls', "empty") /\ Last(calls') # "throw")
       => /\ resp'.status = 200
          /\ Len(queries') = Len(queries) + 1
          /\ RowWritten(Last(queries'))
          /\ Last(queries').answer = noResultsAnswer
          /\ Last(queries').sources = <<>>
          /\ Last(queries').confidence = "Low"
          /\ ~Includes(calls', "llm")
          /\ join(Last(stream').words, <<" ">>) = noResultsAnswer
          /\ Last(stream').sources = <<>>
          /\ Last(stream').confidence = "Low"]_vars

\* The canned answer for a user whose indexed documents all scored below the
\* threshold
C7_Witness ==
    /\ resp.op = "query" /\ resp.status = 200 /\ Includes(calls, "empty")
    /\ queries # <<>> /\ Last(queries).answer = noResultsAnswer
    /\ \E p \in points : p.collection = getCollectionName(Last(queries).userId)

\* C8 as claimed: a non-empty query of an authenticated user who has uploaded
\* nothing (the limiter lets it pass, nothing throws) returns a stream that
\* ends with the empty sources marker and confidence "Low".
C8_NoUploadsStreamsCannedAnswer ==
    [][(/\ QueryStep
        /\ resp'.caller # None /\ ~QueryMissing(resp'.req.query)
        /\ ~\E o \in docOwner : o.userId = UserUuid(resp'.caller)
        /\ resp'.status # 429 /\ Last(calls') # "throw")
       => /\ resp'.status = 200
          /\ Len(stream') = Len(stream) + 1
          /\ Last(stream').sources = <<>>
          /\ Last(stream').confidence = "Low"]_vars

\* The mean of the scores of the sources, as the pair (sum, count)
SumOfScores(sources) ==
    LET RECURSIVE sum(_)
        sum(k) == IF k = 0 THEN 0 ELSE sources[k].score + sum(k - 1)
    IN sum(Len(sources))

\* C9: the label of a row with sources is "Low" when the heuristic fired on
\* its answer and the retrieved passages; otherwise "High" for a mean score
\* >= 0.85, "Medium" for 0.70 <= mean < 0.85, "Low" below; and
\* getConfidenceLevel has these bands for every score.
C9_ConfidenceBands ==
    /\ \A k \in DOMAIN queries :
        LET row == queries[k]
            n == Len(row.sources)
            total == SumOfScores(row.sources)
            fired == detectPotentialHallucination(row.answer,
                        [i \in DOMAIN row.sources |-> [content |-> row.sources[i].text]])
        IN n > 0 =>
            row.confidence = IF fired THEN "Low"
                             ELSE IF total >= 85 * n THEN "High"
                             ELSE IF total >= 70 * n THEN "Medium"
                             ELSE "Low"
    /\ \A s \in 0..100 :
        getConfidenceLevel([num |-> s, den |-> 1]) =
            IF s >= 85 THEN "High" ELSE IF s >= 70 THEN "Medium" ELSE "Low"

\* The heuristic fired on an answer whose sources have a mean score of 1.0
C9_Witness ==
    /\ queries # <<>>
    /\ Len(Last(queries).sources) = 2
    /\ SumOfScores(Last(queries).sources) = 200
    /\ detectPotentialHallucination(Last(queries).answer,
            [i \in DOMAIN Last(queries).sources |->
                [content |-> Last(queries).sources[i].text]])
    /\ Last(queries).confidence = "Low"

\* C19 as claimed: the 429 of a query carries the remaining quota and the
\* reset time, and the request embeds, searches, generates and persists
\* nothing.
C19_Query429CarriesBothHints ==
    [][(QueryStep /\ resp'.status = 429)
       => /\ "remaining" \in DOMAIN resp'.body
          /\ "reset" \in DOMAIN resp'.body
          /\ queries' = queries /\ stream' = stream
          /\ calls' = <<"limiter.limit">>]_vars

\* What holds of the 429 of a query: it carries the remaining quota alone,
\* and the limiter call is the only call of the request.
C19_Query429RejectsWithoutWork ==
    [][(QueryStep /\ resp'.status = 429)
       => /\ DOMAIN resp'.body = {"error", "remaining", "streamed"}
          /\ resp'.body.remaining = 0 /\ resp'.body.streamed = 0
          /\ queries' = queries /\ stream' = stream
          /\ calls' = <<"limiter.limit">>]_vars

\* C20: a query request of an authenticated caller that has passed the
\* limiter and whose body is read, with a query that is absent, not a
\* string, empty or made of white space only, is answered 400 "Query is
\* required"; it looks up no user, embeds nothing, searches nothing, calls
\* no LLM and inserts no row.
C20_BlankQueryRejected ==
    [][(/\ QueryStep /\ resp'.caller # None /\ resp'.status # 429
        /\ Includes(calls', "request.json") /\ Last(calls') # "throw"
        /\ \/ resp'.req.query.t # "string"
           \/ \A i \in DOMAIN resp'.req.query.v : resp'.req.query.v[i] \in {" ", "\n", "\t"})
       => /\ resp'.status = 400 /\ resp'.body.error = "Query is required"
          /\ Last(calls') = "request.json"
          /\ \A call \in {"users.select", "embed", "vector.search", "llm", "queries.insert"} :
                ~Includes(calls', call)
          /\ queries' = queries /\ stream' = stream]_vars

\* A query of white space only was answered 400 for a user with indexed
\* documents
C20_Witness ==
    /\ resp.op = "query" /\ resp.status = 400
    /\ resp.req.query = [t |-> "string", v |-> <<" ", "\n">>]
    /\ \E p \in points : p.collection = getCollectionName(UserUuid(resp.caller))

----------------------------------------------------------------------------
(* Specification of the search isolation: two identities upload, the worker *)
(* indexes, documents are deleted (the vector deletion may fail) and both   *)
(* query with every filter, ids of the other user's documents included.     *)

InitIsolation ==
    /\ Init
    /\ env.NODE_ENV = "development" /\ env.WORKER_URL /\ ~env.UPSTASH
    /\ env.WORKER_SECRET = None

NextIsolation ==
    \/ \E c \in ClerkIds : UploadValid(c)
    \/ \E msg \in inbox, n \in 1..MaxChunks : WorkerIndex(msg, n, <<"4", "2", "%">>)
    \/ \E c \in ClerkIds, id \in DocIds, vectorUp \in BOOLEAN :
            DeleteDocument(c, id, "none", TRUE, vectorUp)
    \/ \E c \in ClerkIds, documentIds \in DocumentIdLists,
          ranking \in RankingsOver(points, {100}) :
            /\ Room(c)
            /\ Query(c, "allow", ValidQuery, documentIds, "none", ranking,
                     <<"4", "2", "%">>, 1)
    \* the responses that carry sources are read to their end
    \/ \E i \in DOMAIN stream : stream[i].sources # <<>> /\ StreamTick(i)

SpecIsolation == InitIsolation /\ [][NextIsolation]_vars

\* The document named by a source was inserted for userId
InsertedFor(source, userId) ==
    \E o \in docOwner : o.id = source.docId /\ o.userId = userId

\* C2 (as amended): every source of a persisted Query row and of a streamed
\* sources marker names a document that was inserted for the querying user,
\* one the user owns or one the user owned and deleted; never a document of
\* another user, whatever the documentIds filter.
C2_SourcesOnlyOfOwnUploads ==
    \A k \in DOMAIN queries :
        /\ \A i \in DOMAIN queries[k].sources :
                InsertedFor(queries[k].sources[i], queries[k].userId)
        /\ \A j \in DOMAIN stream[k].out :
                \A i \in DOMAIN stream[k].out[j].sources :
                    InsertedFor(stream[k].out[j].sources[i], queries[k].userId)

\* A query that filtered on a document of another user, who has indexed
\* documents, has streamed a sources marker that is not empty
C2_Witness ==
    /\ resp.op = "query" /\ resp.status = 200
    /\ resp.req.documentIds.t = "array"
    /\ \E i \in DOMAIN resp.req.documentIds.v :
            \E d \in documents : /\ d.id = resp.req.documentIds.v[i]
                                 /\ d.userId \notin CallerIds
                                 /\ \E p \in points : p.payload.doc_id = d.id
    /\ stream[resp.body.streamed].closed
    /\ \E j \in DOMAIN stream[resp.body.streamed].out :
            stream[resp.body.streamed].out[j].sources # <<>>

\* C2 as claimed: when a query is answered, every source of its row names a
\* row of documents owned by the querying user.
C2_SourcesNameOwnedDocuments ==
    [][(resp' # resp /\ resp'.op = "query" /\ resp'.status = 200)
       => \A i \in DOMAIN Last(queries').sources :
            \E d \in documents' : /\ d.id = Last(queries').sources[i].docId
                                  /\ d.userId = Last(queries').userId]_vars

----------------------------------------------------------------------------
(* Specification of the processing webhook in production, with and without *)
(* a configured WORKER_SECRET: both handlers of the repository receive     *)
(* requests with and without the header.                                    *)

InitWebhook ==
    /\ Init
    /\ env.NODE_ENV = "production" /\ env.WORKER_URL /\ ~env.UPSTASH

SomeWebhookBodies ==
    [document_id : 0..MaxDocs, status : {None, "ready", "failed", "done"},
     chunk_count : {[t |-> "undefined", v |-> 0], [t |-> "number", v |-> 12]},
     error_message : {None}]

NextWebhook ==
    \/ UploadValid("clerk_1")
    \/ \E header \in SecretHeaders, body \in SomeWebhookBodies :
            ProcessWebhook(header, body, "none")
    \/ \E header \in SecretHeaders, body \in SomeWebhookBodies :
            ProcessWebhookStrict(header, body, "none")
    \/ \E fail \in WebhookFailures \ {"none"} :
            \/ ProcessWebhook("s3cret", [document_id |-> 1, status |-> "failed",
                                         chunk_count |-> [t |-> "undefined", v |-> 0],
                                         error_message |-> "parse error"], fail)
            \/ ProcessWebhookStrict("s3cret", [document_id |-> 1, status |-> "failed",
                                               chunk_count |-> [t |-> "undefined", v |-> 0],
                                               error_message |-> "parse error"], fail)

SpecWebhook == InitWebhook /\ [][NextWebhook]_vars

\* C4: in production no webhook request changes a row of documents unless
\* its X-Worker-Secret header equals the configured WORKER_SECRET; with no
\* secret configured no request changes a row.
C4_SecretRequiredInProduction ==
    [][(/\ env.NODE_ENV = "production"
        /\ resp'.op \in {"process", "processStrict"}
        /\ documents' # documents)
       => /\ env.WORKER_SECRET # None
          /\ resp'.req.header = env.WORKER_SECRET]_vars

\* The same, of the handler that checks the configuration first
C4_StrictHandlerRequiresSecret ==
    [][(/\ env.NODE_ENV = "production"
        /\ resp'.op = "processStrict"
        /\ documents' # documents)
       => /\ env.WORKER_SECRET # None
          /\ resp'.req.header = env.WORKER_SECRET]_vars

----------------------------------------------------------------------------
(* Specification of the upload handler: files of every size around the     *)
(* limit and of every type, with the limiter, the database, the storage and *)
(* the worker failing, with and without a configured WORKER_URL.            *)

InitUpload ==
    /\ Init
    /\ env.NODE_ENV = "development" /\ env.UPSTASH
    /\ env.WORKER_SECRET = None

\* A PDF of each size
SizedFiles == {[ValidFile EXCEPT !.size = n] : n \in FileSizes}

LargeFile == [ValidFile EXCEPT !.size = 60 * 1024 * 1024]

NextUpload ==
    \* files of every size, with and without authentication
    \/ \E c \in {None, "clerk_1"}, file \in SizedFiles \cup {NoFile} :
            Upload(c, file, "allow", TRUE, "none", "ok", TRUE)
    \* the limiter denies or throws
    \/ \E lim \in {"deny", "throw"} :
            Upload("clerk_1", LargeFile, lim, TRUE, "none", "ok", TRUE)
    \* files of every type
    \/ \E type \in FileTypes :
            Upload("clerk_1", [LargeFile EXCEPT !.type = type], "allow", TRUE, "none",
                   "ok", TRUE)
    \/ \E type \in FileTypes :
            Upload("clerk_1", [ValidFile EXCEPT !.type = type], "allow", TRUE, "none",
                   "ok", TRUE)
    \* a call throws, or the identity has no email address
    \/ \E file \in {ValidFile, LargeFile}, fail \in UploadFailures \ {"none"} :
            Upload("clerk_1", file, "allow", TRUE, fail, "ok", TRUE)
    \/ \E file \in {ValidFile, LargeFile} :
            Upload("clerk_2", file, "allow", FALSE, "none", "ok", TRUE)
    \* the worker refuses the notification or cannot be reached
    \/ \E worker \in WorkerOutcomes \ {"ok"} :
            Upload("clerk_1", ValidFile, "allow", TRUE, "none", worker, FALSE)

SpecUpload == InitUpload /\ [][NextUpload]_vars

\* C10: an upload of a file of more than 50 MB inserts no user and no
\* document, writes nothing to the storage and notifies no worker, and its
\* response carries no document id; when the request is authenticated, passes
\* the limiter and its form data is read, the response is the 400 size
\* error. A file of exactly 50 MB is not answered with the size error: a PDF
\* of that size is stored unless a call throws.
C10_OversizedUploadRejected ==
    [][(resp' # resp /\ resp'.op = "upload" /\ resp'.req.file.size >= 52428800)
       => IF resp'.req.file.size > 52428800
          THEN /\ users' = users /\ documents' = documents
               /\ storage' = storage /\ inbox' = inbox
               /\ ~Includes(calls', "storage.write") /\ ~Includes(calls', "users.insert")
               /\ ~Includes(calls', "documents.insert")
               /\ ~Includes(calls', "worker.notify")
               /\ "id" \notin DOMAIN resp'.body
               /\ resp'.status # 200
               /\ (Includes(calls', "request.formData") /\ Last(calls') # "throw")
                  => /\ resp'.status = 400
                     /\ resp'.body.error = "File too large. Maximum size is 50MB."
          ELSE /\ resp'.body.error # "File too large. Maximum size is 50MB."
               /\ (/\ Includes(calls', "request.formData")
                   /\ resp'.req.file.type = "application/pdf"
                   /\ resp'.status # 500)
                  => /\ resp'.status = 200
                     /\ \E d \in documents' \ documents :
                            d.id = resp'.body.id /\ d.fileSize = 52428800]_vars

\* A 60 MB PDF is refused with the size error although its type is allowed
\* and the user has uploaded before
C10_Witness ==
    /\ resp.op = "upload" /\ resp.req.file.size = 60 * 1024 * 1024
    /\ resp.req.file.type = "application/pdf"
    /\ resp.status = 400 /\ resp.body.error = "File too large. Maximum size is 50MB."
    /\ documents # {}

TypeError == "Invalid file type. Allowed types: PDF, TXT, MD, DOC, DOCX."

\* C11: an upload of a file whose MIME type is none of PDF, plain text,
\* Markdown, legacy Word and modern Word inserts no document and no user,
\* writes nothing to the storage and notifies no worker; once the request is
\* authenticated, has passed the limiter and its form data is read, the
\* response is a 400, the type error when the size is within the limit. A
\* file of one of the five types is never answered with the type error and,
\* within the size limit, reaches the user lookup that follows the type check.
C11_DisallowedTypeRejected ==
    [][(resp' # resp /\ resp'.op = "upload" /\ resp'.req.file # NoFile)
       => LET file == resp'.req.file
              read == Includes(calls', "request.formData") /\ resp'.status # 500
          IN IF file.type \notin
                    {"application/pdf", "text/plain", "text/markdown", "application/msword",
                     "application/vnd.openxmlformats-officedocument.wordprocessingml.document"}
             THEN /\ documents' = documents /\ users' = users
                  /\ storage' = storage /\ inbox' = inbox
                  /\ ~Includes(calls', "storage.write")
                  /\ ~Includes(calls', "documents.insert")
                  /\ ~Includes(calls', "users.select")
                  /\ "id" \notin DOMAIN resp'.body
                  /\ ~isAllowedFileType(file.type)
                  /\ read => resp'.status = 400
                  /\ (read /\ file.size <= 52428800) => resp'.body.error = TypeError
             ELSE /\ resp'.body.error # TypeError
                  /\ isAllowedFileType(file.type)
                  /\ (read /\ file.size <= 52428800) => Includes(calls', "users.select")]_vars

\* A 2 MB JPEG is refused with the type error after documents were stored
C11_Witness ==
    /\ resp.op = "upload" /\ resp.req.file.type = "image/jpeg"
    /\ resp.req.file.size = 2 * 1024 * 1024
    /\ resp.status = 400 /\ resp.body.error = TypeError
    /\ documents # {}

\* Every allowed type has been stored
C11_AllTypesStored ==
    \E d1, d2 \in documents : d1.mimeType = "text/markdown" /\ d2.mimeType = "application/msword"

\* C12: an upload whose storage write and document insert succeeded answers
\* 200 with the id of the new row and status "processing", whether
\* WORKER_URL is unset, the fetch throws, or the worker answers not-OK; the
\* worker is called once when WORKER_URL is set and not at all otherwise, and
\* the new row has status "processing".
C12_UploadSurvivesWorkerFailure ==
    [][(/\ resp' # resp /\ resp'.op = "upload"
        /\ Includes(calls', "documents.insert") /\ documents' # documents)
       => LET attempts == Cardinality({i \in DOMAIN calls' : calls'[i] = "worker.notify"})
          IN /\ resp'.status = 200
             /\ resp'.body.status = "processing"
             /\ \E d \in documents' \ documents :
                    /\ d.id = resp'.body.id /\ d.status = "processing"
                    /\ documents' = documents \cup {d}
                    /\ d.storageUrl \in storage'
             /\ attempts = (IF env.WORKER_URL THEN 1 ELSE 0)
             /\ Cardinality(inbox' \ inbox) <= attempts]_vars

\* An upload answered 200 although the fetch of the worker threw
C12_Witness ==
    /\ resp.op = "upload" /\ resp.status = 200
    /\ Len(calls) >= 2 /\ calls[Len(calls) - 1] = "worker.notify" /\ Last(calls) = "throw"
    /\ \E d \in documents : d.id = resp.body.id /\ d.status = "processing"
    /\ ~\E msg \in inbox : msg.document_id = resp.body.id

\* An upload answered 200 without WORKER_URL
C12_WitnessNoWorkerUrl ==
    /\ resp.op = "upload" /\ resp.status = 200 /\ ~env.WORKER_URL
    /\ ~Includes(calls, "worker.notify")

----------------------------------------------------------------------------
(* Specification of the processing webhook's effect on the rows: clerk_1    *)
(* uploads, the webhook is called with payloads of every shape for existing *)
(* and missing documents, both identities list, time passes.                *)

InitProcess ==
    /\ Init
    /\ env.NODE_ENV = "development" /\ env.WORKER_URL /\ ~env.UPSTASH
    /\ env.WORKER_SECRET = None

NoChunkCount == [t |-> "undefined", v |-> 0]

WebhookBody(id, status, chunk_count, error_message) ==
    [document_id |-> id, status |-> status, chunk_count |-> chunk_count,
     error_message |-> error_message]

\* Payloads that vary one field at a time
ProcessBodies ==
    {WebhookBody(id, st, NoChunkCount, None) : id \in DocIds, st \in WebhookStatuses}
    \cup {WebhookBody(id, "ready", cc, None) : id \in DocIds, cc \in ChunkCounts}
    \cup {WebhookBody(id, "failed", NoChunkCount, e) : id \in DocIds, e \in ErrorMessages}
    \cup {WebhookBody(id, "ready", [t |-> "number", v |-> 12], None) : id \in {0, MaxDocs + 1}}

NextProcess ==
    \/ UploadValid("clerk_1")
    \/ \E body \in ProcessBodies : ProcessWebhook(None, body, "none")
    \/ \E fail \in WebhookFailures \ {"none"} :
            ProcessWebhook(None, WebhookBody(1, "failed", NoChunkCount, "parse error"), fail)
    \/ \E c \in ClerkIds : ListDocuments(c, NoParam, NoParam, "none")
    \/ AdvanceClock

SpecProcess == InitProcess /\ [][NextProcess]_vars

\* The request is a webhook payload with one of the three statuses and a
\* numeric chunk count
StatusUpdate(r) ==
    /\ r.op = "process"
    /\ r.req.body.status \in {"processing", "ready", "failed"}
    /\ r.req.body.chunk_count.t = "number"

\* The listing shows the document id with this status and chunk count
Listed(listing, id, status, chunkCount) ==
    \E i \in DOMAIN listing :
        /\ listing[i].id = id
        /\ listing[i].status = status
        /\ listing[i].chunkCount = chunkCount

\* C13: a listing (first page) that follows the caller's successful upload
\* shows the new document with status "processing"; a listing that follows
\* an accepted webhook update with status s and chunk count n for a document
\* of the caller shows that document with status s and chunkCount n; and
\* every listing shows each row of the caller with the row's status and
\* chunk count, which an accepted update has set to s and n.
C13_ListingShowsWebhookUpdate ==
    /\ [][(resp' # resp /\ resp'.op = "list" /\ resp'.status = 200)
          => LET listing == resp'.body.documents
                 ids == {u.id : u \in {u \in users : u.clerkId = resp'.caller}}
             IN /\ (resp.op = "upload" /\ resp.status = 200 /\ resp.caller = resp'.caller)
                      => Listed(listing, resp.body.id, "processing", 0)
                /\ (/\ StatusUpdate(resp) /\ resp.status = 200
                    /\ \E d \in documents : d.id = resp.req.body.document_id
                                             /\ d.userId \in ids)
                      => Listed(listing, resp.req.body.document_id, resp.req.body.status,
                                resp.req.body.chunk_count.v)
                /\ \A d \in documents :
                      d.userId \in ids => Listed(listing, d.id, d.status, d.chunkCount)]_vars
    /\ [][(StatusUpdate(resp') /\ resp'.status = 200)
          => \A d \in documents' :
                d.id = resp'.req.body.document_id
                    => /\ d.status = resp'.req.body.status
                       /\ d.chunkCount = resp'.req.body.chunk_count.v]_vars

\* The listing right after the webhook accepted "ready" with 12 chunks
C13_Witness ==
    /\ resp.op = "list" /\ resp.status = 200
    /\ Listed(resp.body.documents, 1, "ready", 12)
    /\ Listed(resp.body.documents, 2, "processing", 0)

\* The rows are the same but for updatedAt
SameButUpdatedAt(rows1, rows2) ==
    {[d EXCEPT !.updatedAt = 0] : d \in rows1} = {[d EXCEPT !.updatedAt = 0] : d \in rows2}

\* The request that is answered repeats the accepted webhook request before it
Reapplied ==
    /\ resp.op = "process" /\ resp.status = 200
    /\ resp'.op = "process" /\ resp'.status = 200
    /\ resp'.req = resp.req

\* C14 (as amended): when the webhook accepts the payload it accepted in the
\* request before, every row of documents is as the first application left
\* it, but for updatedAt of the named document, which the application sets
\* to its time.
C14_ReapplyKeepsAllButUpdatedAt ==
    [][Reapplied
       => /\ SameButUpdatedAt(documents', documents)
          /\ \A e \in documents' :
                \/ e \in documents
                \/ e.id = resp'.req.body.document_id /\ e.updatedAt = now
          /\ chunks' = chunks /\ users' = users]_vars

\* The payload "failed" with an error message was accepted for document 1 at
\* time 1
C14_Witness ==
    /\ resp.op = "process" /\ resp.status = 200
    /\ resp.req.body = WebhookBody(1, "failed", NoChunkCount, "parse error")
    /\ now = 1
    /\ \E d \in documents : /\ d.id = 1 /\ d.status = "failed"
                             /\ d.errorMessage = "parse error" /\ d.updatedAt = 1

\* C14 as claimed: the second application leaves the rows as the first did.
C14_ReapplyKeepsRows ==
    [][Reapplied => documents' = documents]_vars

\* C15 as claimed: no step changes the status of a document that is "ready"
\* or "failed".
C15_ReadyAndFailedAreTerminal ==
    [][\A d \in documents :
            d.status \in {"ready", "failed"}
                => \A e \in documents' : e.id = d.id => e.status = d.status]_vars

\* What a webhook request leaves alone apart from the named row
WebhookFrame ==
    /\ \A d \in documents : d.id # resp'.req.body.document_id => d \in documents'
    /\ {d.id : d \in documents'} = {d.id : d \in documents}
    /\ users' = users /\ chunks' = chunks /\ queries' = queries
    /\ storage' = storage /\ points' = points /\ inbox' = inbox

\* Of the named row, status, chunk count and error message change only when
\* the payload supplies them, and to the supplied value
SuppliedOnly(d, e, body) ==
    /\ e.status # d.status => body.status # None /\ e.status = body.status
    /\ e.chunkCount # d.chunkCount
            => body.chunk_count.t = "number" /\ e.chunkCount = body.chunk_count.v
    /\ e.errorMessage # d.errorMessage
            => body.error_message # None /\ e.errorMessage = body.error_message

----------------------------------------------------------------------------
(* Specification of the rate limit: uploads in front of the sliding-window *)
(* limiter, with the cache configured or not, uploads and queries whose     *)
(* limiter call throws, while time passes.                                  *)

InitRateLimit ==
    /\ Init
    /\ env.NODE_ENV = "development" /\ env.WORKER_URL
    /\ env.WORKER_SECRET = None

EmptyQuery == [t |-> "string", v |-> <<>>]

NextRateLimit ==
    \/ \E file \in {NoFile, ValidFile} :
            LimitedUpload("clerk_1", file, TRUE, "none", "ok", TRUE)
    \/ LimitedUpload(None, NoFile, TRUE, "none", "ok", TRUE)
    \* the limiter cannot be reached
    \/ Upload("clerk_1", NoFile, "throw", TRUE, "none", "ok", TRUE)
    \/ \E lim \in LimiterOutcomes :
            Query("clerk_1", lim, EmptyQuery, NoDocumentIds, "none", <<>>, <<>>, 1)
    \/ AdvanceClock

SpecRateLimit == InitRateLimit /\ [][NextRateLimit]_vars

\* The uploads of the user that the limiter has let pass within the last hour
PassedInWindow(c) ==
    Cardinality({i \in DOMAIN ratelimit["upload"][c] : now - ratelimit["upload"][c][i] < WINDOW})

\* The request was answered by a limiter that is configured and reachable
LimiterAnswered ==
    /\ env.UPSTASH
    /\ calls' # <<>> /\ calls'[1] = "limiter.limit"
    /\ Len(calls') >= 2 => calls'[2] # "throw"

\* C17: with the limiter configured and reachable, an upload of a user of
\* whom 10 uploads have passed the check within the last hour is answered 429
\* with remaining 0, reads no form data, writes nothing to the storage and
\* inserts no document or user; an upload of a user with fewer passes the
\* check and is counted; so never more than 10 uploads of one user have
\* passed within one hour.
C17_EleventhUploadRejected ==
    /\ [](\A c \in ClerkIds : PassedInWindow(c) <= 10)
    /\ [][(resp' # resp /\ resp'.op = "upload" /\ resp'.caller # None /\ LimiterAnswered)
          => LET c == resp'.caller IN
             IF PassedInWindow(c) >= 10
             THEN /\ resp'.status = 429 /\ resp'.body.remaining = 0
                  /\ calls' = <<"limiter.limit">>
                  /\ storage' = storage /\ documents' = documents /\ users' = users
                  /\ inbox' = inbox
                  /\ Len(ratelimit'["upload"][c]) = 10
             ELSE /\ resp'.status # 429
                  /\ Includes(calls', "request.formData")
                  /\ Len(ratelimit'["upload"][c]) >= 1
                  /\ Last(ratelimit'["upload"][c]) = now
                  /\ Len(ratelimit'["upload"][c]) = PassedInWindow(c) + 1]_vars

\* The 11th upload within an hour, after uploads in two different half
\* hours, is answered 429 with remaining 0
C17_Witness ==
    /\ resp.op = "upload" /\ resp.status = 429 /\ resp.body.remaining = 0
    /\ resp.caller = "clerk_1"
    /\ PassedInWindow("clerk_1") = 10
    /\ \E i \in DOMAIN ratelimit["upload"]["clerk_1"] : ratelimit["upload"]["clerk_1"][i] < now
    /\ Last(ratelimit["upload"]["clerk_1"]) = now
    /\ documents # {}

\* C18: when the cache is not configured, or the limiter call throws,
\* checkRateLimit reports success for both operation classes, and no upload
\* and no query of an authenticated caller is answered 429: the handler goes
\* on to read the request.
C18_LimiterFailsOpen ==
    /\ [](\A type \in {"upload", "query"}, lim \in LimiterOutcomes :
            (~env.UPSTASH \/ lim = "throw") => checkRateLimit(type, lim).success)
    /\ [][(/\ resp' # resp /\ resp'.op \in {"upload", "query"} /\ resp'.caller # None
           /\ \/ ~env.UPSTASH
              \/ Len(calls') >= 2 /\ calls'[1] = "limiter.limit" /\ calls'[2] = "throw")
          => /\ resp'.status # 429
             /\ Includes(calls', IF resp'.op = "upload" THEN "request.formData"
                                 ELSE "request.json")
             /\ ~env.UPSTASH => ~Includes(calls', "limiter.limit")]_vars

\* An upload passes although 10 uploads of the user were counted within the
\* hour, because the limiter call threw
C18_Witness ==
    /\ resp.op = "upload" /\ resp.status = 400
    /\ Len(calls) >= 2 /\ calls[1] = "limiter.limit" /\ calls[2] = "throw"
    /\ PassedInWindow("clerk_1") = 10

\* Uploads are stored without a cache
C18_WitnessUnconfigured ==
    /\ ~env.UPSTASH /\ resp.op = "upload" /\ resp.status = 200
    /\ nextDocId > MaxDocs

----------------------------------------------------------------------------
(* Specification of the listing's pagination: clerk_1 uploads at the same   *)
(* and at different times, both identities list with every page and limit,  *)
(* clerk_2 never uploads.                                                    *)

InitListing ==
    /\ Init
    /\ env.NODE_ENV = "development" /\ env.WORKER_URL /\ ~env.UPSTASH
    /\ env.WORKER_SECRET = None

NextListing ==
    \/ UploadValid("clerk_1")
    \/ \E c \in ClerkIds, pageParam \in PageParams, limitParam \in LimitParams :
            ListDocuments(c, pageParam, limitParam, "none")
    \/ \E fail \in ListFailures \ {"none"} :
            ListDocuments("clerk_1", Param(<<"2">>), Param(<<"1">>), fail)
    \/ ListDocuments(None, NoParam, NoParam, "none")
    \/ AdvanceClock

SpecListing == InitListing /\ [][NextListing]_vars

\* A listing answered with success
ListedOk == resp' # resp /\ resp'.op = "list" /\ resp'.status = 200

\* The value a page or limit parameter of the request stands for
Echoed(param, fallback) == IF param.given THEN parseInt(param.text).v ELSE fallback

\* The documents of the caller of the answered request
DocsOfCaller == {d \in documents : \E u \in users : u.clerkId = resp'.caller /\ u.id = d.userId}

\* docs is the stretch of length limit after the first offset rows of rows
\* in an order of descending createdAt
IsPageOf(docs, rows, limit, offset) ==
    LET n == Cardinality(rows)
        rest == IF n > offset THEN n - offset ELSE 0
    IN
    /\ Len(docs) = IF rest < limit THEN rest ELSE limit
    /\ \A i \in DOMAIN docs : \E d \in rows : docs[i] = formattedDoc(d)
    /\ \A i, j \in DOMAIN docs : i < j => /\ docs[i].id # docs[j].id
                                          /\ docs[i].createdAt >= docs[j].createdAt
    /\ Len(docs) > 0 =>
         /\ Cardinality({d \in rows : d.createdAt > docs[1].createdAt}) <= offset
         /\ Cardinality({d \in rows : d.createdAt >= docs[Len(docs)].createdAt})
                >= offset + Len(docs)

\* C21 as claimed: every listing answered with success carries the echoed
\* page and limit (1 and 20 when absent) and the documents at positions
\* (page-1)*limit+1 .. page*limit of the caller's documents, newest first.
C21_ListingCarriesPageAndLimit ==
    [][ListedOk
       => /\ {"documents", "page", "limit"} \subseteq DOMAIN resp'.body
          /\ resp'.body.page = Echoed(resp'.req.page, 1)
          /\ resp'.body.limit = Echoed(resp'.req.limit, 20)
          /\ IsPageOf(resp'.body.documents, DocsOfCaller, resp'.body.limit,
                      (resp'.body.page - 1) * resp'.body.limit)]_vars

\* What holds of a listing: a caller with a users row gets the echoed page
\* and limit with that page of their documents, a caller without one gets
\* an empty list and neither page nor limit.
C21_ListingOfKnownCallerIsPage ==
    [][ListedOk
       => IF UserOf(resp'.caller) = {}
          THEN /\ resp'.body.documents = <<>>
               /\ "page" \notin DOMAIN resp'.body /\ "limit" \notin DOMAIN resp'.body
          ELSE /\ resp'.body.page = Echoed(resp'.req.page, 1)
               /\ resp'.body.limit = Echoed(resp'.req.limit, 20)
               /\ IsPageOf(resp'.body.documents, DocsOfCaller, resp'.body.limit,
                           (resp'.body.page - 1) * resp'.body.limit)]_vars

\* The second page of one document per page shows the older of two
\* documents
C21_SecondPageReached ==
    /\ resp.op = "list" /\ resp.status = 200 /\ "page" \in DOMAIN resp.body
    /\ resp.body.page = 2 /\ resp.body.limit = 1
    /\ Len(resp.body.documents) = 1
    /\ \E d \in documents : d.createdAt > resp.body.documents[1].createdAt

----------------------------------------------------------------------------
(* Specification of the hallucination heuristic: detectPotentialHallucination *)
(* is applied to answers of one or two words and to up to two retrieved      *)
(* texts.                                                                    *)

\* 42%, 42Percent, 3.5million, 7., Never, ok
DetectWords ==
    {<<"4", "2", "%">>,
     <<"4", "2", "P", "e", "r", "c", "e", "n", "t">>,
     <<"3", ".", "5", "m", "i", "l", "l", "i", "o", "n">>,
     <<"7", ".">>,
     <<"N", "e", "v", "e", "r">>,
     <<"o", "k">>}

DetectAnswers == DetectWords \cup {a \o <<" ">> \o b : a, b \in DetectWords}

\* 42%, is 42PERCENT, 3.5 MILLION, never 7
DetectTexts ==
    <<<<"4", "2", "%">>,
      <<"i", "s", " ", "4", "2", "P", "E", "R", "C", "E", "N", "T">>,
      <<"3", ".", "5", " ", "M", "I", "L", "L", "I", "O", "N">>,
      <<"n", "e", "v", "e", "r", " ", "7">>>>

\* No text, one text, or two different texts in the order the search ranks them
DetectContexts ==
    {<<>>} \cup {<<[content |-> DetectTexts[i]]>> : i \in DOMAIN DetectTexts}
           \cup {<<[content |-> DetectTexts[p[1]]], [content |-> DetectTexts[p[2]]]>> :
                    p \in {q \in (DOMAIN DetectTexts) \X (DOMAIN DetectTexts) : q[1] < q[2]}}

\* One call of the function, recorded with its arguments and its result
Detect(answer, contexts) ==
    /\ resp' = Response("detect", None, [answer |-> answer, contexts |-> contexts], 0,
                        [error |-> None,
                         fired |-> detectPotentialHallucination(answer, contexts)])
    /\ calls' = <<>>
    /\ UNCHANGED <<env, now, users, documents, chunks, queries, storage, points, inbox,
                   ratelimit, client, uploader, inflight, nextDocId, docOwner, stream>>

InitDetect ==
    /\ Init
    /\ env.NODE_ENV = "development" /\ env.WORKER_URL /\ ~env.UPSTASH
    /\ env.WORKER_SECRET = None

NextDetect == \E answer \in DetectAnswers, contexts \in DetectContexts : Detect(answer, contexts)

SpecDetect == InitDetect /\ [][NextDetect]_vars

\* text[i..j] is a number with optional decimal part and optional suffix
IsNumberAt(text, i, j) ==
    \E a \in i..j, b \in i..j :
        /\ a <= b
        /\ \A k \in i..a : IsDigit(text[k])
        /\ \/ b = a
           \/ /\ b >= a + 2 /\ text[a + 1] = "."
              /\ \A k \in (a + 2)..b : IsDigit(text[k])
        /\ \/ j = b
           \/ \E k \in DOMAIN NumberSuffixes :
                toLowerCase(SubSeq(text, b + 1, j)) = NumberSuffixes[k]

\* The end of the longest number that starts at i
LongestNumberAt(text, i) ==
    CHOOSE j \in i..Len(text) :
        /\ IsNumberAt(text, i, j)
        /\ \A m \in i..Len(text) : IsNumberAt(text, i, m) => m <= j

\* The numeric tokens of text, read from left to right: a token starts at
\* every digit that no earlier token covers
NumericTokens(text) ==
    LET starts[i \in DOMAIN text] ==
            /\ IsDigit(text[i])
            /\ \A k \in 1..(i - 1) : starts[k] => LongestNumberAt(text, k) < i
    IN {SubSeq(text, i, LongestNumberAt(text, i)) : i \in {i \in DOMAIN text : starts[i]}}

\* The retrieved texts, lower-cased; a token or a word has no blank, so it
\* occurs in the concatenation exactly when it occurs in one of them
OccursIn(contexts, part) ==
    \E i \in DOMAIN contexts : TextIncludes(toLowerCase(contexts[i].content),
                                            toLowerCase(part))

\* C22: detectPotentialHallucination fires exactly when a numeric token of
\* the answer does not occur, ignoring case, in the retrieved text, or the
\* answer contains one of always, never, exactly, precisely, definitely and
\* the retrieved text does not; a token that occurs in the retrieved text
\* does not make it fire.
C22_FiresOnUnsupportedTokens ==
    resp.op = "detect" =>
        LET answer == resp.req.answer
            contexts == resp.req.contexts
        IN resp.body.fired <=>
             \/ \E token \in NumericTokens(answer) : ~OccursIn(contexts, token)
             \/ \E k \in DOMAIN strongAssertions :
                    /\ TextIncludes(toLowerCase(answer), strongAssertions[k])
                    /\ ~OccursIn(contexts, strongAssertions[k])

\* The answer "42% 42Percent" over the texts "42%" and "is 42PERCENT": both
\* tokens occur, the second in another case, and the heuristic stays quiet
C22_Witness ==
    /\ resp.op = "detect" /\ ~resp.body.fired
    /\ resp.req.answer = <<"4", "2", "%", " ", "4", "2", "P", "e", "r", "c", "e", "n", "t">>
    /\ Len(resp.req.contexts) = 2
    /\ NumericTokens(resp.req.answer) = {<<"4", "2", "%">>, <<"4", "2", "P", "e", "r", "c", "e", "n", "t">>}

\* The heuristic fires on a number that the texts lack although they hold
\* its digits with another suffix
C22_WitnessFires ==
    /\ resp.op = "detect" /\ resp.body.fired
    /\ resp.req.answer = <<"3", ".", "5", "m", "i", "l", "l", "i", "o", "n">>
    /\ resp.req.contexts = <<[content |-> <<"3", ".", "5", " ", "M", "I", "L", "L", "I", "O", "N">>]>>

----------------------------------------------------------------------------
(* Specification of the response stream: clerk_1 uploads, the worker        *)
(* indexes, queries are answered with and without results, the timer of     *)
(* each response fires, clients go away before the end.                     *)

InitStream ==
    /\ Init
    /\ env.NODE_ENV = "development" /\ env.WORKER_URL /\ ~env.UPSTASH
    /\ env.WORKER_SECRET = None

\* 42%, Never 4
StreamAnswers == {<<"4", "2", "%">>, <<"N", "e", "v", "e", "r", " ", "4">>}

NextStream ==
    \/ UploadValid("clerk_1")
    \/ \E msg \in inbox : WorkerIndex(msg, 1, <<"4", "2", "%">>)
    \/ \E ranking \in RankingsOver(points, {70, 100}), answer \in StreamAnswers :
            /\ Room("clerk_1")
            /\ Query("clerk_1", "allow", ValidQuery, NoDocumentIds, "none", ranking, answer, 1)
    \/ \E ranking \in RankingsOver(points, {100}) :
            Query("clerk_1", "allow", ValidQuery, NoDocumentIds, "insert", ranking,
                  <<"4", "2", "%">>, 1)
    \/ \E i \in DOMAIN stream : StreamTick(i)
    \/ \E i \in DOMAIN stream, cancels \in BOOLEAN : Disconnect(i, cancels)

SpecStream == InitStream /\ [][NextStream]_vars

\* Every armed timer fires again and again: setInterval(..., 30)
SpecStreamFair == SpecStream /\ \A i \in 1..MaxQueries : WF_vars(StreamTick(i))

\* What the i-th response has to emit, chunk by chunk: the words of the
\* answer of its Query row, each with a blank, then the two marker lines
ExpectedChunks(i) ==
    LET words == split(queries[i].answer)
    IN [k \in DOMAIN words |-> TextChunk(words[k] \o <<" ">>)]
       \o <<SourcesChunk(queries[i].sources), ConfidenceChunk(queries[i].confidence)>>

Completed(i) == i \in DOMAIN stream /\ stream[i].closed /\ ~stream[i].timer

Cancelled(i) == i \in DOMAIN stream /\ stream[i].cancelled

\* C25 as claimed: every started drip-feed runs to completion: it emits
\* both markers, clears its timer and closes the stream, also when the
\* client goes away before the last word.
C25_EveryDripFeedCompletes ==
    \A i \in 1..MaxQueries :
        [](i \in DOMAIN stream => <>Completed(i))

\* What holds of the drip-feed: a stream that no consumer cancels is closed
\* with its timer cleared (also when the client is gone and the runtime goes
\* on reading), and a closed stream has all its chunks and no timer.
C25_UncancelledDripFeedCompletes ==
    /\ \A i \in 1..MaxQueries :
        [](i \in DOMAIN stream => <>(Cancelled(i) \/ Completed(i)))
    /\ [](\A i \in DOMAIN stream :
            stream[i].closed =>
                /\ ~stream[i].timer /\ stream[i].index = Len(stream[i].words)
                /\ Len(stream[i].out) = Len(stream[i].words) + 2)

\* What holds of a cancelled stream: from then on every callback throws and
\* nothing clears the timer or closes the stream or emits a chunk.
C25_CancelledTimerStaysArmed ==
    [][\A i \in DOMAIN stream :
        stream[i].cancelled =>
            /\ stream'[i].cancelled /\ stream'[i].timer /\ ~stream'[i].closed
            /\ stream'[i].out = stream[i].out /\ stream'[i].index = stream[i].index]_vars

\* A callback has thrown on a cancelled stream before its last word
C25_CancelledMidAnswer ==
    \E i \in DOMAIN stream :
        /\ stream[i].cancelled /\ stream[i].thrown = 2 /\ stream[i].timer
        /\ stream[i].index = 1 /\ Len(stream[i].words) = 2

\* C26: what a query streams is what it persisted: the stream is created in
\* the step that has inserted the Query row, after the insert; a handler
\* whose insert throws returns no stream; the words, the sources of the
\* sources marker and the label of the confidence marker are the answer,
\* sources and confidence of that row, with and without results.
C26_StreamsWhatItPersisted ==
    /\ [](Len(stream) = Len(queries))
    /\ [][stream' # stream /\ Len(stream') > Len(stream)
          => /\ Len(queries') = Len(stream')
             /\ Last(calls') = "queries.insert"
             /\ Last(stream').out = <<>>]_vars
    /\ [][resp' # resp /\ resp'.op = "query" /\ Includes(calls', "throw")
          => stream' = stream /\ queries' = queries]_vars
    /\ [](\A i \in DOMAIN stream :
            LET st == stream[i]
                row == queries[i]
            IN /\ join(st.words, <<" ">>) = row.answer
               /\ \A k \in DOMAIN st.out :
                    IF k <= Len(st.words)
                    THEN st.out[k] = TextChunk(split(row.answer)[k] \o <<" ">>)
                    ELSE IF k = Len(st.words) + 1
                    THEN /\ st.out[k].pre = SOURCES_MARKER
                         /\ st.out[k].sources = row.sources
                    ELSE st.out[k].pre =
                            CONFIDENCE_MARKER \o ConfidenceText(row.confidence) \o <<"\n">>)

\* A response with a source, labelled other than Low, is streamed to its end
C26_Witness ==
    \E i \in DOMAIN stream :
        /\ stream[i].closed /\ queries[i].sources # <<>>
        /\ queries[i].confidence # "Low"
        /\ stream[i].out[Len(stream[i].out) - 1].sources = queries[i].sources

\* The canned answer is streamed to its end
C26_WitnessNoResults ==
    \E i \in DOMAIN stream :
        /\ stream[i].closed /\ queries[i].answer = noResultsAnswer
        /\ Len(stream[i].out) = Len(split(noResultsAnswer)) + 2

----------------------------------------------------------------------------
(* Specification of the client's reading of a response: clerk_1 uploads,    *)
(* the worker indexes, a query is answered with sources, the timer fires,   *)
(* and the component reads what has arrived in reads of every length.       *)

InitClient ==
    /\ Init
    /\ env.NODE_ENV = "development" /\ env.WORKER_URL /\ ~env.UPSTASH
    /\ env.WORKER_SECRET = None

NextClient ==
    \/ UploadValid("clerk_1")
    \/ \E msg \in inbox : WorkerIndex(msg, 1, <<"4", "2", "%">>)
    \/ \E ranking \in RankingsOver(points, {100}), answer \in StreamAnswers :
            /\ Room("clerk_1") /\ points # {}
            /\ Query("clerk_1", "allow", ValidQuery, NoDocumentIds, "none", ranking, answer, 1)
    \/ \E i \in DOMAIN stream : StreamTick(i)
    \/ \E i \in DOMAIN stream : ClientStart(i)
    \/ \E n \in (IF client.reading = 0 THEN {}
                 ELSE 1..(Len(Wire(client.reading)) - client.pos)) : ClientRead(n)
    \/ ClientEnd

SpecClient == InitClient /\ [][NextClient]_vars

\* The component shows what the row of the response it has read holds
ShowsAnswerOf(row) ==
    /\ trim(client.answer) = trim(row.answer)
    /\ ~TextIncludes(client.answer, <<"_", "_">>)
    /\ client.sources = [set |-> TRUE, v |-> row.sources]
    /\ client.confidence = row.confidence

\* C24 as claimed: however the response is split into reads, when the stream
\* has ended the displayed answer is the answer without marker text, the
\* sources are the sources sent and the confidence is the label sent.
C24_ClientShowsWhatWasSent ==
    client.done => ShowsAnswerOf(queries[client.reading])

\* What holds of the client: when every read returns exactly one enqueued
\* chunk, the component ends with the answer, the sources and the label.
C24_ChunkwiseReadsShowWhatWasSent ==
    (client.done /\ client.aligned) => ShowsAnswerOf(queries[client.reading])

\* Both marker lines arrive in one read, and the label is never shown
C24_MarkersInOneReadLoseLabel ==
    /\ client.done /\ client.sources.set /\ client.confidence = None
    /\ trim(client.answer) = trim(queries[client.reading].answer)

\* Chunk by chunk the component ends with sources and label
C24_ChunkwiseReached ==
    /\ client.done /\ client.aligned /\ client.sources.set
    /\ client.confidence = queries[client.reading].confidence

----------------------------------------------------------------------------
(* Specification of concurrent uploads: up to MaxInflight uploads of the    *)
(* two identities run await by await, next to uploads that run alone.       *)

InitUploadRace ==
    /\ Init
    /\ env.NODE_ENV = "development" /\ env.WORKER_URL /\ ~env.UPSTASH
    /\ env.WORKER_SECRET = None

NextUploadRace ==
    \/ \E r \in RequestIds, c \in ClerkIds : BeginUpload(r, c, ValidFile)
    \/ \E r \in RequestIds : UploadSelectUser(r)
    \/ \E r \in RequestIds : UploadInsertUser(r)
    \/ \E r \in RequestIds : UploadStore(r)
    \/ \E r \in RequestIds : UploadInsertDoc(r)
    \/ UploadValid("clerk_2")
    \/ AdvanceClock

SpecUploadRace == InitUploadRace /\ [][NextUploadRace]_vars

\* C27: however concurrent uploads of one identity without a users row
\* interleave, there is never more than one users row of a clerk_id, every
\* documents row references a users row, and the document an upload has
\* created references the one users row of its caller.
C27_OneUserRowPerIdentity ==
    /\ \A c \in ClerkIds : Cardinality(UserOf(c)) <= 1
    /\ \A d \in documents : \E u \in users : u.id = d.userId
    /\ \A q \in inflight :
        (q.op = "upload" /\ q.status = 200) =>
            \E d \in documents : /\ d.id = q.docId
                                 /\ UserOf(q.caller) # {}
                                 /\ d.userId = UserRow(q.caller).id

\* Two uploads of clerk_1 have both found no users row: one has inserted the
\* row and its document, the insert of the other was refused
C27_Witness ==
    \E q1, q2 \in inflight :
        /\ q1.caller = "clerk_1" /\ q2.caller = "clerk_1"
        /\ q1.status = 200 /\ q2.status = 500
        /\ Cardinality(UserOf("clerk_1")) = 1 /\ Cardinality(documents) = 1

\* Two concurrent uploads of clerk_1 have both stored their document
C27_WitnessBothStored ==
    \E q1, q2 \in inflight :
        /\ q1.id # q2.id /\ q1.caller = "clerk_1" /\ q2.caller = "clerk_1"
        /\ q1.status = 200 /\ q2.status = 200

----------------------------------------------------------------------------
(* Specification of concurrent deletions: the two identities upload, the    *)
(* worker indexes, and up to MaxInflight DELETE requests run await by await. *)

InitDeleteRace ==
    /\ Init
    /\ env.NODE_ENV = "development" /\ env.WORKER_URL /\ ~env.UPSTASH
    /\ env.WORKER_SECRET = None

NextDeleteRace ==
    \/ \E c \in ClerkIds : UploadValid(c)
    \/ \E msg \in inbox : WorkerIndex(msg, 1, <<"n", "o">>)
    \/ \E r \in RequestIds, c \in ClerkIds, id \in DocIds : BeginDelete(r, c, id)
    \/ \E r \in RequestIds : DeleteSelectUser(r)
    \/ \E r \in RequestIds : DeleteSelectDoc(r)
    \/ \E r \in RequestIds, storageUp \in BOOLEAN : DeleteStorage(r, storageUp)
    \/ \E r \in RequestIds, vectorUp \in BOOLEAN : DeleteVectors(r, vectorUp)
    \/ \E r \in RequestIds : DeleteRow(r)

SpecDeleteRace == InitDeleteRace /\ [][NextDeleteRace]_vars

\* q is a DELETE of the owner of the document it names
ByOwner(q) ==
    /\ q.op = "delete"
    /\ \E o \in docOwner : o.id = q.documentId /\ o.userId = UserUuid(q.caller)

NoRowsOf(documentId) ==
    /\ \A d \in documents : d.id # documentId
    /\ \A ch \in chunks : ch.documentId # documentId

\* C28: however two concurrent DELETE requests of the owner for one document
\* interleave, each is answered with success or 404, and once both are
\* answered no documents or chunks row of that document is left; no step of
\* a DELETE removes a row of another document.
C28_ConcurrentDeletesRemoveOnce ==
    /\ [](\A q1, q2 \in inflight :
            (/\ q1.id # q2.id /\ ByOwner(q1) /\ ByOwner(q2)
             /\ q1.documentId = q2.documentId
             /\ q1.pc = "answered" /\ q2.pc = "answered")
            => /\ q1.status \in {200, 404} /\ q2.status \in {200, 404}
               /\ (q1.existed \/ q2.existed \/ q1.status = 200 \/ q2.status = 200)
                    => /\ NoRowsOf(q1.documentId)
                       /\ q1.status = 200 \/ q2.status = 200)
    /\ [][\A d \in documents \ documents' :
            \E q \in inflight' : /\ q.op = "delete" /\ q.documentId = d.id
                                 /\ q.status = 200 /\ q.user = d.userId]_vars
    /\ [][\A ch \in chunks \ chunks' :
            \/ \E q \in inflight' : /\ q.op = "delete" /\ q.documentId = ch.documentId
                                    /\ q.status = 200
            \/ \E n \in chunks' : n.documentId = ch.documentId]_vars

\* Both requests have found the document and both are answered with
\* success; the document and its chunk are gone, the other document is there
C28_Witness ==
    \E q1, q2 \in inflight :
        /\ q1.id # q2.id /\ ByOwner(q1) /\ ByOwner(q2) /\ q1.documentId = q2.documentId
        /\ q1.status = 200 /\ q2.status = 200
        /\ NoRowsOf(q1.documentId) /\ documents # {}
        /\ \E p \in points : p.payload.doc_id # q1.documentId

\* One request is answered with success, the other with 404
C28_WitnessNotFound ==
    \E q1, q2 \in inflight :
        /\ ByOwner(q1) /\ ByOwner(q2) /\ q1.documentId = q2.documentId
        /\ q1.status = 200 /\ q2.status = 404 /\ q2.existed

----------------------------------------------------------------------------
(* Specification of the webhook's frame: both identities upload and delete, *)
(* the webhook is called, with and without a configured secret, for ids of  *)
(* existing, deleted and never created documents and for a malformed id.    *)

InitFrame ==
    /\ Init
    /\ env.NODE_ENV = "development" /\ env.WORKER_URL /\ ~env.UPSTASH

\* -1 stands for a document_id that is not the text of a uuid
FrameIds == (-1)..(MaxDocs + 1)

FrameBodies ==
    {WebhookBody(id, st, [t |-> "number", v |-> 12], None) :
        id \in FrameIds, st \in {None, "ready", "done"}}

NextFrame ==
    \/ \E c \in ClerkIds : UploadValid(c)
    \/ \E c \in ClerkIds, id \in DocIds : DeleteDocument(c, id, "none", TRUE, TRUE)
    \/ \E body \in FrameBodies : ProcessWebhook("s3cret", body, "none")
    \/ \E header \in {None, "guess"}, id \in {1, MaxDocs + 1}, fail \in WebhookFailures :
            ProcessWebhook(header, WebhookBody(id, "failed", NoChunkCount, "parse error"),
                           fail)
    \/ AdvanceClock

SpecFrame == InitFrame /\ [][NextFrame]_vars

\* The response is that of a webhook call that passed the secret check with
\* a readable payload naming a document id, an acceptable status, and no
\* failure of the database
WellFormedCall(r) ==
    /\ r.op = "process"
    /\ SecretAccepted(r.req.header)
    /\ IsUuid(r.req.body.document_id)
    /\ r.req.body.status \in {None, "", "processing", "ready", "failed"}
    /\ r.status # 500

\* C29: no webhook call adds or removes a documents row; a well-formed call
\* that names a document id with no row (never created, or deleted) leaves
\* documents as it is and is answered with success.
C29_WebhookKeepsRowSet ==
    [][resp'.op = "process"
       => /\ {d.id : d \in documents'} = {d.id : d \in documents}
          /\ (WellFormedCall(resp') /\ \A d \in documents : d.id # resp'.req.body.document_id)
                => /\ documents' = documents
                   /\ resp'.status = 200 /\ resp'.body.success]_vars

\* A call for a deleted document was answered with success while a document
\* of the other identity is stored
C29_Witness ==
    /\ resp.op = "process" /\ resp.status = 200 /\ resp.body.success
    /\ resp.req.body.status = "ready"
    /\ \E o \in docOwner : o.id = resp.req.body.document_id
    /\ \A d \in documents : d.id # resp.req.body.document_id
    /\ documents # {}

\* A call for an id that was never created was answered with success
C29_WitnessNeverCreated ==
    /\ resp.op = "process" /\ resp.status = 200
    /\ resp.req.body.document_id = MaxDocs + 1
    /\ documents # {}

----------------------------------------------------------------------------
(* Specification of the upload component of clerk_1's browser: files are    *)
(* added and removed, Upload and Retry are clicked, and each POST is        *)
(* handled by the upload handler or fails on the network.                   *)

InitUploader ==
    /\ Init
    /\ env.NODE_ENV = "development" /\ env.WORKER_URL /\ ~env.UPSTASH
    /\ env.WORKER_SECRET = None

\* A file over the size limit
BigFile == [name |-> FileName, size |-> MAX_FILE_SIZE + 1, type |-> "application/pdf"]

NextUploader ==
    \/ \E newFiles \in {<<ValidFile>>, <<BigFile, ValidFile>>, <<ValidFile, ValidFile>>} :
            addFiles(newFiles)
    \/ \E id \in 1..MaxFiles : removeFile(id)
    \/ uploadAllFiles
    \/ \E id \in 1..MaxFiles : Retry(id)
    \/ \E run \in uploader.runs, fail \in {"none", "storage"} :
            UploadResponse(run, "clerk_1", fail)
    \/ \E run \in uploader.runs : UploadNetworkError(run)

SpecUploader == InitUploader /\ [][NextUploader]_vars

\* The status of file id before and after the step
Moves(id, from, to) ==
    StatusOf(uploader.files, id) = from /\ StatusOf(uploader'.files, id) = to

\* The step settles a POST of file id whose response is a 2xx
OwnPostSucceeded(id) ==
    /\ \E run \in uploader.runs : run.cur.id = id /\ run \notin uploader'.runs
    /\ resp'.op = "upload" /\ resp'.status \in 200..299
    /\ documents' # documents

\* The step is a click on Retry for file id
RetryClicked(id) ==
    \E run \in uploader'.runs \ uploader.runs : run.kind = "retry" /\ run.cur.id = id

\* C30: the status of a queued file only moves pending -> uploading ->
\* success or error, and error -> uploading on Retry; success is terminal,
\* is reached only with a 2xx response to the file's own POST, a file leaves
\* the list only while pending, and a Retry issues one new POST for the file.
C30_StatusMovesOnlyForward ==
    [][\A id \in 1..MaxFiles :
        LET from == StatusOf(uploader.files, id)
            to == StatusOf(uploader'.files, id)
        IN
        /\ from # to =>
            \/ from = "absent" /\ to = "pending"
            \/ from = "pending" /\ to \in {"uploading", "absent"}
            \/ from = "uploading" /\ to \in {"success", "error"}
            \/ from = "error" /\ to = "uploading" /\ RetryClicked(id)
        /\ to = "success" /\ from # "success" => OwnPostSucceeded(id)
        /\ RetryClicked(id) => uploader'.posts[id] = uploader.posts[id] + 1]_vars

\* What holds of the claim: a file becomes success only by a 2xx response to
\* a POST of that file, it leaves the list only while pending, a file that
\* is pending or uploading moves as claimed, and a click on Retry issues
\* one POST, for a file in error.
C30_SuccessOnlyAfterOwnOk ==
    [][\A id \in 1..MaxFiles :
        LET from == StatusOf(uploader.files, id)
            to == StatusOf(uploader'.files, id)
        IN
        /\ to = "success" /\ from # "success" => OwnPostSucceeded(id)
        /\ to = "absent" /\ from # "absent" => from = "pending"
        /\ from = "pending" => to \in {"pending", "uploading", "absent"}
        /\ from = "uploading" => to \in {"uploading", "success", "error"}
        /\ RetryClicked(id) => /\ from = "error" /\ to = "uploading"
                               /\ uploader'.posts[id] = uploader.posts[id] + 1]_vars

\* A file was uploaded at the second attempt, by Retry
C30_RetriedToSuccess ==
    \E id \in 1..MaxFiles :
        StatusOf(uploader.files, id) = "success" /\ uploader.posts[id] = 2

\* Two calls of uploadAllFiles are in their fetch at once
C30_TwoRunsOfUploadAll ==
    \E r1, r2 \in uploader.runs : r1.id # r2.id /\ r1.kind = "all" /\ r2.kind = "all"

====
